---- MODULE Spec2Model ----
(***************************************************************************)
(* Model of the rounding plugin (src/src/code.ts) and of the part of its   *)
(* panel (src/src/ui.tsx) that drives it.                                  *)
(*                                                                         *)
(* Numbers.  TLC has 32-bit integers and no reals, so every numeric node   *)
(* property and every factor is an integer count of TICKS, one tick being  *)
(* 0.0005.  Quotients that the code forms in floating point (value/factor, *)
(* width/height) are kept as exact fractions [n, d].  The state machine    *)
(* therefore computes over the reals, which is exact on the scene's values *)
(* (multiples of 0.5 with whole factors).  What the numeric helpers do on  *)
(* arbitrary doubles is computed in the binary64 section below.            *)
(***************************************************************************)
EXTENDS Integers, Sequences, FiniteSets, TLC

\* 0.001, the magnitude below which applyRoundingStrategy preserves a value,
\* in ticks of 0.0005.
TinyThreshold == 2

\* Ticks per 1.0 (0.001 is TinyThreshold ticks).
Unit == TinyThreshold * 1000

\* Number of decimal digits kept by the pre-rounding of the "round" strategy
\* (Math.round(scaled * 1000000) / 1000000).
PreRoundDigits == 6

Strategies == {"round", "floor", "ceil"}

Abs(a) == IF a < 0 THEN 0 - a ELSE a

Range(seq) == {seq[i] : i \in DOMAIN seq}

\* Math.floor(n / d) for d > 0.
MathFloor(n, d) == n \div d

\* Math.ceil(n / d) for d > 0.
MathCeil(n, d) == 0 - ((0 - n) \div d)

\* Math.round(n / d) for d > 0: floor(n/d + 1/2), ties go towards +infinity.
\* Computed from the floor and the remainder so that 2*n never overflows.
MathRound(n, d) == (n \div d) + (IF 2 * (n % d) >= d THEN 1 ELSE 0)

\* Math.round((r / d) * 10^k) for 0 <= r < d, by decimal long division
\* (one digit per step keeps every product below 10 * d).
RECURSIVE Pow10(_)
Pow10(k) == IF k = 0 THEN 1 ELSE 10 * Pow10(k - 1)

RECURSIVE ScaleRound(_, _, _)
ScaleRound(r, d, k) ==
    IF k = 0
    THEN (IF 2 * r >= d THEN 1 ELSE 0)
    ELSE ((10 * r) \div d) * Pow10(k - 1) + ScaleRound((10 * r) % d, d, k - 1)

\* The "round" strategy on scaled = n/d (d > 0):
\*   rounded = Math.round(scaled * 1000000) / 1000000; Math.round(rounded).
\* scaled = q + r/d with q = floor(scaled); the pre-rounding yields
\* q + m / 10^6 with m = Math.round(r/d * 10^6) in 0..10^6.
RoundScaled(n, d) ==
    LET q == n \div d
        m == ScaleRound(n % d, d, PreRoundDigits)
    IN  q + MathRound(m, Pow10(PreRoundDigits))

RECURSIVE GCD(_, _)
GCD(a, b) == IF b = 0 THEN a ELSE GCD(b, a % b)

\* a/b < c/d for a, c >= 0 and b, d > 0, compared by integer parts and
\* reciprocals of the remainders (no product is formed, so nothing overflows).
RECURSIVE FracLess(_, _, _, _)
FracLess(a, b, c, d) ==
    IF a \div b # c \div d THEN a \div b < c \div d
    ELSE IF c % d = 0 THEN FALSE
    ELSE IF a % b = 0 THEN TRUE
    ELSE FracLess(d, c % d, b, a % b)

\* applyRoundingStrategy on an exact fraction num/den of ticks (den > 0).
\* The result is a fraction [n, d]: a value that is returned unchanged keeps
\* its denominator, a rounded value is a whole multiple of the factor.
\* scaled = value / factor = num / (den * factor) is reduced to lowest terms
\* before it is rounded, which leaves its value unchanged.
ApplyFraction(num, den, factor, strategy) ==
    IF factor <= 0 THEN [n |-> num, d |-> den]
    ELSE IF num = 0 THEN [n |-> 0, d |-> 1]
    ELSE IF Abs(num) < TinyThreshold * den THEN [n |-> num, d |-> den]
    ELSE LET g  == GCD(Abs(num), den * factor)
             sn == num \div g
             sd == (den * factor) \div g
             k  == CASE strategy = "floor" -> MathFloor(sn, sd)
                    [] strategy = "ceil"  -> MathCeil(sn, sd)
                    [] OTHER              -> RoundScaled(sn, sd)
         IN  [n |-> k * factor, d |-> 1]

\* applyRoundingStrategy(value, factor, strategy) on a value in ticks.
applyRoundingStrategy(value, factor, strategy) ==
    ApplyFraction(value, 1, factor, strategy).n

\* 1% threshold of preserveProportions, as the denominator of 0.01.
RatioThresholdInverse == 100

\* ratioChange > 0.01 in preserveProportions, for width, height >= 0 and the
\* independently rounded nw, nh >= 0.  A NaN ratioChange (height = 0,
\* width = 0, or 0/0 as the new ratio) compares false; an infinite one
\* (nh = 0 < nw) compares true.
RatioChanged(width, height, nw, nh) ==
    IF width = 0 \/ height = 0 THEN FALSE
    ELSE IF nh = 0 THEN nw > 0
    ELSE FracLess(nh * width, RatioThresholdInverse, Abs(nw * height - width * nh), 1)

\* ratio1 < ratio2 in preserveProportions, where
\*   ratio1 = |newWidth / heightRounded - aspectRatio|,
\*   ratio2 = |widthRounded / newHeight - aspectRatio|,
\* hr and wr being the fractions heightRounded and widthRounded.
\* ratio1 is NaN or Infinity when heightRounded = 0 and ratio2 is NaN when
\* newHeight = 0 (widthRounded is then 0): the comparison is false.
\* Both ratios are fractions over the common factor height, which is dropped.
Ratio1Closer(width, height, nw, nh, hr, wr) ==
    IF hr.n = 0 \/ nh = 0 THEN FALSE
    ELSE FracLess(Abs(nw * hr.d * height - width * hr.n), hr.n,
                  Abs(wr.n * height - width * wr.d * nh), wr.d * nh)

\* preserveProportions(width, height, factor, strategy): the pair
\* <<newWidth, newHeight>> of fractions of ticks.
preserveProportions(width, height, factor, strategy) ==
    LET nw == applyRoundingStrategy(width, factor, strategy)
        nh == applyRoundingStrategy(height, factor, strategy)
    IN  IF RatioChanged(width, height, nw, nh)
        THEN LET hr == ApplyFraction(nw * height, width, factor, strategy)
                 wr == ApplyFraction(nh * width, height, factor, strategy)
             IN  IF Ratio1Closer(width, height, nw, nh, hr, wr)
                 THEN <<[n |-> nw, d |-> 1], hr>>
                 ELSE <<wr, [n |-> nh, d |-> 1]>>
        ELSE <<[n |-> nw, d |-> 1], [n |-> nh, d |-> 1]>>

\* A fraction of ticks as stored in a node property.  Every value the model
\* writes is a whole number of ticks (a multiple of the factor, or an
\* unchanged input); a preserved magnitude below 0.001 is cut to a tick.
Ticks(q) == q.n \div q.d

(***************************************************************************)
(* IEEE-754 binary64.  The claims about applyRoundingStrategy as a         *)
(* function of arbitrary numbers depend on what a JavaScript number is:    *)
(* 0.3 / 0.1 is 2.9999999999999996, and toFixed(10) rewrites the result in *)
(* decimal.  This section computes the function on doubles exactly.        *)
(*                                                                         *)
(* A natural number of any size is a little-endian sequence of limbs, each *)
(* in 0 .. Limb - 1, without leading zero limbs (zero is <<>>).  A         *)
(* rational is [s, n, d]: sign s in {-1, 0, 1}, numerator n and            *)
(* denominator d naturals.  A finite double is [s, m, e] with value        *)
(* s * m * 2^e, where m has exactly Precision bits (or is <<>> for zero),  *)
(* so two doubles are equal exactly when their records are equal; -0 is    *)
(* identified with 0, which no operation of the function tells apart.      *)
(* Every operation is the exact rational result rounded to nearest, ties   *)
(* to even.  The exponent is unbounded: no value of the model comes near   *)
(* the overflow or subnormal range.                                        *)
(*                                                                         *)
(* Only({F(v) : v \in {e}}) evaluates e once and binds its value to v;     *)
(* it is F(e), written so that intermediate results are values.            *)
(***************************************************************************)
Only(S) == CHOOSE v \in S : TRUE

RECURSIVE Pow2(_)
Pow2(k) == IF k = 0 THEN 1 ELSE 2 * Pow2(k - 1)

\* Bits per limb: a product of two limbs plus a carry fits in 32 bits.
LimbBits == 15

Limb == Pow2(LimbBits)

RECURSIVE BigOf(_)
BigOf(n) == IF n = 0 THEN <<>> ELSE <<n % Limb>> \o BigOf(n \div Limb)

RECURSIVE BigTrim(_)
BigTrim(a) ==
    IF a = <<>> THEN <<>>
    ELSE IF a[Len(a)] = 0 THEN BigTrim(SubSeq(a, 1, Len(a) - 1))
    ELSE a

LimbAt(a, i) == IF i <= Len(a) THEN a[i] ELSE 0

\* -1, 0, 1 as a < b, a = b, a > b
RECURSIVE BigCmpFrom(_, _, _)
BigCmpFrom(a, b, i) ==
    IF i = 0 THEN 0
    ELSE IF a[i] < b[i] THEN 0 - 1
    ELSE IF a[i] > b[i] THEN 1
    ELSE BigCmpFrom(a, b, i - 1)

BigCmp(a, b) ==
    IF Len(a) < Len(b) THEN 0 - 1
    ELSE IF Len(a) > Len(b) THEN 1
    ELSE BigCmpFrom(a, b, Len(a))

RECURSIVE BigAddFrom(_, _, _, _)
BigAddFrom(a, b, i, carry) ==
    IF i > Len(a) /\ i > Len(b) THEN (IF carry = 0 THEN <<>> ELSE <<carry>>)
    ELSE Only({<<t % Limb>> \o BigAddFrom(a, b, i + 1, t \div Limb)
               : t \in {LimbAt(a, i) + LimbAt(b, i) + carry}})

BigAdd(a, b) == Only({BigAddFrom(u, v, 1, 0) : u \in {a}, v \in {b}})

\* a - b for a >= b
RECURSIVE BigSubFrom(_, _, _, _)
BigSubFrom(a, b, i, borrow) ==
    IF i > Len(a) THEN <<>>
    ELSE Only({<<IF t < 0 THEN t + Limb ELSE t>>
                  \o BigSubFrom(a, b, i + 1, IF t < 0 THEN 1 ELSE 0)
               : t \in {a[i] - LimbAt(b, i) - borrow}})

BigSub(a, b) == Only({BigTrim(BigSubFrom(u, v, 1, 0)) : u \in {a}, v \in {b}})

\* a * k for 0 <= k <= Limb
RECURSIVE BigScaleFrom(_, _, _, _)
BigScaleFrom(a, k, i, carry) ==
    IF i > Len(a) THEN (IF carry = 0 THEN <<>> ELSE <<carry>>)
    ELSE Only({<<t % Limb>> \o BigScaleFrom(a, k, i + 1, t \div Limb)
               : t \in {a[i] * k + carry}})

BigScale(a, k) ==
    Only({IF n = 0 THEN <<>> ELSE BigScaleFrom(u, n, 1, 0) : u \in {a}, n \in {k}})

BigShiftLimbs(a, n) == IF a = <<>> THEN <<>> ELSE [i \in 1..n |-> 0] \o a

RECURSIVE BigMulFrom(_, _, _)
BigMulFrom(a, b, i) ==
    IF i > Len(b) THEN <<>>
    ELSE BigAdd(BigShiftLimbs(BigScale(a, b[i]), i - 1), BigMulFrom(a, b, i + 1))

BigMul(a, b) == Only({BigMulFrom(u, v, 1) : u \in {a}, v \in {b}})

\* a * 2^k
BigShl(a, k) == BigShiftLimbs(BigScale(a, Pow2(k % LimbBits)), k \div LimbBits)

RECURSIVE IntBitLen(_)
IntBitLen(n) == IF n = 0 THEN 0 ELSE 1 + IntBitLen(n \div 2)

BigBitLen(a) ==
    IF a = <<>> THEN 0 ELSE LimbBits * (Len(a) - 1) + IntBitLen(a[Len(a)])

BigOdd(a) == a # <<>> /\ a[1] % 2 = 1

\* Long division, one limb of the quotient per step.  QuotientDigit finds the
\* largest q < Limb with b * q <= r by bisection on the bits of q.
RECURSIVE QuotientDigit(_, _, _, _)
QuotientDigit(r, b, k, q0) ==
    IF k < 0 THEN q0
    ELSE Only({QuotientDigit(r, b, k - 1,
                             IF BigCmp(BigScale(b, q1), r) <= 0 THEN q1 ELSE q0)
               : q1 \in {q0 + Pow2(k)}})

BigDivDigit(r, b, q) == <<q, BigSub(r, BigScale(b, q))>>

BigDivStep(limb, b, qr) ==
    Only({<<<<qd[1]>> \o qr[1], qd[2]>>
          : qd \in {BigDivDigit(r, b, QuotientDigit(r, b, LimbBits - 1, 0))
                    : r \in {BigTrim(<<limb>> \o qr[2])}}})

RECURSIVE BigDivFrom(_, _, _, _)
BigDivFrom(a, b, j, qr) ==
    IF j = 0 THEN <<BigTrim(qr[1]), qr[2]>>
    ELSE Only({BigDivFrom(a, b, j - 1, next) : next \in {BigDivStep(a[j], b, qr)}})

\* <<quotient, remainder>> of a by b > 0
BigDivMod(a, b) ==
    Only({BigDivFrom(u, v, Len(u), <<<<>>, <<>>>>) : u \in {a}, v \in {b}})

BigFloorDiv(n, d) == BigDivMod(n, d)[1]

BigCeilDiv(n, d) == BigDivMod(BigSub(BigAdd(n, d), <<1>>), d)[1]

RECURSIVE BigPow10(_)
BigPow10(k) == IF k = 0 THEN <<1>> ELSE BigScale(BigPow10(k - 1), 10)

Rat(s, n, d) ==
    IF n = <<>> THEN [s |-> 0, n |-> <<>>, d |-> <<1>>] ELSE [s |-> s, n |-> n, d |-> d]

RatMul(p, q) == Rat(p.s * q.s, BigMul(p.n, q.n), BigMul(p.d, q.d))

\* p / q for q # 0
RatDiv(p, q) == Rat(p.s * q.s, BigMul(p.n, q.d), BigMul(p.d, q.n))

\* -1, 0, 1 as p < q, p = q, p > q
RatCmp(p, q) ==
    IF p.s # q.s THEN (IF p.s < q.s THEN 0 - 1 ELSE 1)
    ELSE IF p.s = 0 THEN 0
    ELSE p.s * BigCmp(BigMul(p.n, q.d), BigMul(q.n, p.d))

\* Bits of a double's significand.
Precision == 53

F64Zero == [s |-> 0, m |-> <<>>, e |-> 0]

\* The exact value of a double.
RatOf(x) ==
    IF x.s = 0 THEN Rat(0, <<>>, <<1>>)
    ELSE IF x.e >= 0 THEN Rat(x.s, BigShl(x.m, x.e), <<1>>)
    ELSE Rat(x.s, x.m, BigShl(<<1>>, 0 - x.e))

\* The significand m, incremented when the discarded part rounds up.
F64Pack(s, m, e, up) ==
    LET m1 == IF up THEN BigAdd(m, <<1>>) ELSE m
    IN  IF BigBitLen(m1) > Precision
        THEN [s |-> s, m |-> BigShl(<<1>>, Precision - 1), e |-> e + 1]
        ELSE [s |-> s, m |-> m1, e |-> e]

\* The double nearest to the rational q, ties to even.  n * 2^sh / d has
\* Precision or Precision + 1 bits; in the second case its last bit is
\* dropped and takes part in the rounding decision.
F64RoundOf(q) ==
    IF q.s = 0 THEN F64Zero
    ELSE LET sh == Precision - (BigBitLen(q.n) - BigBitLen(q.d))
             a  == IF sh >= 0 THEN BigShl(q.n, sh) ELSE q.n
             b  == IF sh < 0 THEN BigShl(q.d, 0 - sh) ELSE q.d
             qr == BigDivMod(a, b)
         IN  IF BigBitLen(qr[1]) > Precision
             THEN LET h == BigDivMod(qr[1], <<2>>)
                  IN  F64Pack(q.s, h[1], 1 - sh,
                              h[2] # <<>> /\ (qr[2] # <<>> \/ BigOdd(h[1])))
             ELSE LET c == BigCmp(BigScale(qr[2], 2), b)
                  IN  F64Pack(q.s, qr[1], 0 - sh, c > 0 \/ (c = 0 /\ BigOdd(qr[1])))

F64Round(p) == Only({F64RoundOf(q) : q \in {p}})

\* The number literal k / 10^scale, for instance Decimal(35, 2) is 0.35.
Decimal(k, scale) ==
    F64Round(Rat(IF k < 0 THEN 0 - 1 ELSE 1, BigOf(Abs(k)), BigPow10(scale)))

\* x / y (y # 0) and x * y
F64Div(x, y) == Only({F64Round(RatDiv(RatOf(a), RatOf(b))) : a \in {x}, b \in {y}})

F64Mul(x, y) == Only({F64Round(RatMul(RatOf(a), RatOf(b))) : a \in {x}, b \in {y}})

\* Math.abs(x) and x < y
F64Abs(x) == [x EXCEPT !.s = IF @ = 0 THEN 0 ELSE 1]

F64Less(x, y) == Only({RatCmp(RatOf(a), RatOf(b)) < 0 : a \in {x}, b \in {y}})

\* Math.floor(x) and Math.ceil(x)
F64Floor(x) ==
    LET q == Only({RatOf(a) : a \in {x}})
    IN  IF q.s >= 0 THEN F64Round(Rat(1, BigFloorDiv(q.n, q.d), <<1>>))
        ELSE F64Round(Rat(0 - 1, BigCeilDiv(q.n, q.d), <<1>>))

F64Ceil(x) ==
    LET q == Only({RatOf(a) : a \in {x}})
    IN  IF q.s >= 0 THEN F64Round(Rat(1, BigCeilDiv(q.n, q.d), <<1>>))
        ELSE F64Round(Rat(0 - 1, BigFloorDiv(q.n, q.d), <<1>>))

\* Math.round(x) is floor(x + 1/2) computed exactly: ties go towards
\* +infinity, so -n/d with n/d <= 1/2 gives 0 and otherwise
\* -ceil((2n - d) / 2d).
F64MathRound(x) ==
    LET q  == Only({RatOf(a) : a \in {x}})
        n2 == BigScale(q.n, 2)
        d2 == BigScale(q.d, 2)
    IN  IF q.s >= 0 THEN F64Round(Rat(1, BigFloorDiv(BigAdd(n2, q.d), d2), <<1>>))
        ELSE IF BigCmp(n2, q.d) <= 0 THEN F64Zero
        ELSE F64Round(Rat(0 - 1, BigCeilDiv(BigSub(n2, q.d), d2), <<1>>))

\* Digits after the decimal point in result.toFixed(10).
FixedDigits == 10

\* Number(x.toFixed(10)): the exact value of x written with ten decimals,
\* halves rounded away from zero, and read back as a double.
NumberToFixed(x) ==
    LET q == Only({RatOf(a) : a \in {x}})
        n == BigFloorDiv(BigAdd(BigScale(BigMul(q.n, BigPow10(FixedDigits)), 2), q.d),
                         BigScale(q.d, 2))
    IN  F64Round(Rat(q.s, n, BigPow10(FixedDigits)))

\* Math.round(Math.round(scaled * 1000000) / 1000000)
RoundScaled64(scaled) ==
    Only({F64MathRound(back)
          : back \in {F64Div(pre, Decimal(Pow10(PreRoundDigits), 0))
                      : pre \in {F64MathRound(up)
                                 : up \in {F64Mul(scaled, Decimal(Pow10(PreRoundDigits), 0))}}}})

\* applyRoundingStrategy for a positive factor and a value of magnitude at
\* least 0.001: lines 306-327.
ScaleAndRound64(value, factor, strategy) ==
    Only({NumberToFixed(result)
          : result \in {F64Mul(whole, factor)
                        : whole \in {CASE strategy = "floor" -> F64Floor(scaled)
                                       [] strategy = "ceil"  -> F64Ceil(scaled)
                                       [] OTHER              -> RoundScaled64(scaled)
                                     : scaled \in {F64Div(value, factor)}}}})

\* The literal 0.001 of line 303.
Tiny64 == F64Round(Rat(1, BigOf(TinyThreshold), BigOf(Unit)))

\* applyRoundingStrategy with `factor === 0` as its first test instead of
\* `factor <= 0`: a negative factor is used for scaling.
applyRoundingStrategy64ZeroGuard(value, factor, strategy) ==
    IF factor.s = 0 THEN value
    ELSE IF value.s = 0 THEN F64Zero
    ELSE IF F64Less(F64Abs(value), Tiny64) THEN value
    ELSE ScaleAndRound64(value, factor, strategy)

\* applyRoundingStrategy(value, factor, strategy) on doubles.
applyRoundingStrategy64Of(value, factor, strategy) ==
    IF factor.s <= 0 THEN value
    ELSE IF value.s = 0 THEN F64Zero
    ELSE IF F64Less(F64Abs(value), Tiny64) THEN value
    ELSE ScaleAndRound64(value, factor, strategy)

applyRoundingStrategy64(value, factor, strategy) ==
    Only({applyRoundingStrategy64Of(v, f, strategy) : v \in {value}, f \in {factor}})

(***************************************************************************)
(* Nested values (effects, vector networks).  JavaScript values are        *)
(* tagged with their typeof class so that roundDeepValues can dispatch on  *)
(* it as the code does.                                                    *)
(***************************************************************************)
Num(v)  == [t |-> "number", v |-> v]
Str(v)  == [t |-> "string", v |-> v]
Bool(v) == [t |-> "boolean", v |-> v]
Arr(v)  == [t |-> "array", v |-> v]
Obj(v)  == [t |-> "object", v |-> v]

\* roundDeepValues without the recursion: only the numbers directly in a
\* list or an object are rounded, nested containers are returned as they are.
roundShallowValues(obj, factor, strategy) ==
    LET item(x) == IF x.t = "number"
                   THEN Num(applyRoundingStrategy(x.v, factor, strategy))
                   ELSE x
    IN  CASE obj.t = "number" -> item(obj)
          [] obj.t = "array"  -> Arr([i \in DOMAIN obj.v |-> item(obj.v[i])])
          [] obj.t = "object" -> Obj([k \in DOMAIN obj.v |-> item(obj.v[k])])
          [] OTHER -> obj

\* roundDeepValues(obj, factor, strategy)
RECURSIVE roundDeepValues(_, _, _)
roundDeepValues(obj, factor, strategy) ==
    CASE obj.t = "number" -> Num(applyRoundingStrategy(obj.v, factor, strategy))
      [] obj.t = "array"  ->
            Arr([i \in DOMAIN obj.v |-> roundDeepValues(obj.v[i], factor, strategy)])
      [] obj.t = "object" ->
            Obj([k \in DOMAIN obj.v |-> roundDeepValues(obj.v[k], factor, strategy)])
      [] OTHER -> obj

(***************************************************************************)
(* processNodeProperties.  A node is a record whose fields are the         *)
(* properties the host object has ("x" in node is "x" \in DOMAIN node); a  *)
(* field that holds figma.mixed instead of a number is left out.  The      *)
(* context c threads the statements of the function: the node as written   *)
(* so far, the statistics added so far, the host calls made, and whether   *)
(* an exception is propagating to the function's catch block.              *)
(***************************************************************************)
Has(node, f) == f \in DOMAIN node

Merge(node, fields) ==
    [k \in DOMAIN node |-> IF k \in DOMAIN fields THEN fields[k] ELSE node[k]]

Call(op, args) == [op |-> op, args |-> args]

\* One host mutation (a property assignment, resize, a setter): on a node
\* whose mutations the host rejects it throws, otherwise it stores `fields`.
HostMutate(c, op, args, fields) ==
    IF c.broken
    THEN [c EXCEPT !.thrown = TRUE, !.failed = TRUE]
    ELSE [c EXCEPT !.node = Merge(@, fields), !.calls = Append(@, Call(op, args))]

\* stats.propertiesRounded += k; stats.modifiedProperties.add(name)
Count(c, k, name) ==
    IF c.thrown THEN c
    ELSE [c EXCEPT !.propertiesRounded = @ + k,
                   !.modifiedProperties = @ \cup {name}]

\* `node.f = v; stats.propertiesRounded++; stats.modifiedProperties.add(name)`
Assign(c, f, v, name) == Count(HostMutate(c, "set", <<f>>, f :> v), 1, name)

\* `node.resize(w, h)` followed by the statistics update.
Resize(c, w, h, k, name) ==
    Count(HostMutate(c, "resize", <<w, h>>, ("width" :> w) @@ ("height" :> h)), k, name)

\* Lines 689-705: x and y, with the run's single roundingFactor.
StepPosition(c, roundingFactor, options) ==
    LET s  == options.roundingStrategy
        cx == IF Has(c.node, "x") /\ applyRoundingStrategy(c.node.x, roundingFactor, s) # c.node.x
              THEN Assign(c, "x", applyRoundingStrategy(c.node.x, roundingFactor, s), "x")
              ELSE c
    IN  IF cx.thrown THEN cx
        ELSE IF Has(cx.node, "y") /\ applyRoundingStrategy(cx.node.y, roundingFactor, s) # cx.node.y
             THEN Assign(cx, "y", applyRoundingStrategy(cx.node.y, roundingFactor, s), "y")
             ELSE cx

\* `const hasAutoLayout = "layoutMode" in node && node.layoutMode !== "NONE"`
hasAutoLayout(node) == Has(node, "layoutMode") /\ node.layoutMode # "NONE"

\* One `newWidth !== node.width -> node.resize(newWidth, node.height)` block.
RoundWidth(c, options) ==
    LET nw == applyRoundingStrategy(c.node.width, options.roundingFactorByProperty.dimensions,
                                    options.roundingStrategy)
    IN  IF c.thrown \/ nw = c.node.width THEN c
        ELSE Resize(c, nw, c.node.height, 1, "width")

\* One `newHeight !== node.height -> node.resize(node.width, newHeight)` block.
RoundHeight(c, options) ==
    LET nh == applyRoundingStrategy(c.node.height, options.roundingFactorByProperty.dimensions,
                                    options.roundingStrategy)
    IN  IF c.thrown \/ nh = c.node.height THEN c
        ELSE Resize(c, c.node.width, nh, 1, "height")

\* Lines 710-730: text nodes respect their auto-resize mode.
SizeText(c, options) ==
    LET n  == c.node
        c1 == IF ~n.autoRename /\ n.textAutoResize # "WIDTH_AND_HEIGHT"
                 /\ n.textAutoResize # "HEIGHT"
              THEN RoundWidth(c, options) ELSE c
    IN  IF n.textAutoResize = "NONE" THEN RoundHeight(c1, options) ELSE c1

\* Lines 732-765: auto layout containers, fixed dimensions only: the four
\* `if (frame.<axis>SizingMode === "FIXED" && frame.layoutMode === ...)` blocks.
AutoLayoutBlock(i, c, options) ==
    LET n == c.node
    IN  CASE i = 1 -> IF n.primaryAxisSizingMode = "FIXED" /\ n.layoutMode = "HORIZONTAL"
                      THEN RoundWidth(c, options) ELSE c
          [] i = 2 -> IF n.counterAxisSizingMode = "FIXED" /\ n.layoutMode = "HORIZONTAL"
                      THEN RoundHeight(c, options) ELSE c
          [] i = 3 -> IF n.primaryAxisSizingMode = "FIXED" /\ n.layoutMode = "VERTICAL"
                      THEN RoundHeight(c, options) ELSE c
          [] OTHER -> IF n.counterAxisSizingMode = "FIXED" /\ n.layoutMode = "VERTICAL"
                      THEN RoundWidth(c, options) ELSE c

RECURSIVE SizeAutoLayoutFrom(_, _, _)
SizeAutoLayoutFrom(i, c, options) ==
    IF i > 4 THEN c
    ELSE SizeAutoLayoutFrom(i + 1, AutoLayoutBlock(i, c, options), options)

SizeAutoLayout(c, options) == SizeAutoLayoutFrom(1, c, options)

\* Lines 766-784: other nodes are resized in one call, counted as two
\* properties under the name "dimensions".
SizePlain(c, options) ==
    LET n  == c.node
        f  == options.roundingFactorByProperty.dimensions
        s  == options.roundingStrategy
        pp == preserveProportions(n.width, n.height, f, s)
        nw == IF options.preserveProportions THEN Ticks(pp[1])
              ELSE applyRoundingStrategy(n.width, f, s)
        nh == IF options.preserveProportions THEN Ticks(pp[2])
              ELSE applyRoundingStrategy(n.height, f, s)
    IN  IF nw # n.width \/ nh # n.height
        THEN Resize(c, nw, nh, 2, "dimensions")
        ELSE c

\* Lines 707-785.
StepSize(c, options) ==
    IF c.thrown \/ ~("resize" \in c.node.methods /\ Has(c.node, "width") /\ Has(c.node, "height"))
    THEN c
    ELSE IF c.node.type = "TEXT" THEN SizeText(c, options)
    ELSE IF hasAutoLayout(c.node) THEN SizeAutoLayout(c, options)
    ELSE SizePlain(c, options)

\* One `if (frame.f !== undefined) { round; if changed: assign, count }` block
\* of the dimensions group.
RoundDimensionField(c, f, options) ==
    IF c.thrown \/ ~Has(c.node, f) THEN c
    ELSE LET nv == applyRoundingStrategy(c.node[f], options.roundingFactorByProperty.dimensions,
                                         options.roundingStrategy)
         IN  IF nv # c.node[f] THEN Assign(c, f, nv, f) ELSE c

\* Line 791: all four paddings are set and equal.
UniformPadding(node) ==
    /\ Has(node, "paddingLeft") /\ Has(node, "paddingRight")
    /\ Has(node, "paddingTop") /\ Has(node, "paddingBottom")
    /\ node.paddingLeft = node.paddingRight
    /\ node.paddingLeft = node.paddingTop
    /\ node.paddingLeft = node.paddingBottom

\* The blocks of RoundDimensionField for a list of fields, in order.
RECURSIVE RoundDimensionFields(_, _, _)
RoundDimensionFields(c, fields, options) ==
    IF fields = <<>> THEN c
    ELSE RoundDimensionFields(RoundDimensionField(c, Head(fields), options),
                              Tail(fields), options)

PaddingFields == <<"paddingLeft", "paddingRight", "paddingTop", "paddingBottom">>

\* Lines 791-798: the uniform case assigns the four fields and counts one
\* property, "padding".
RoundUniformPadding(c, options) ==
    LET np == applyRoundingStrategy(c.node.paddingLeft,
                                    options.roundingFactorByProperty.dimensions,
                                    options.roundingStrategy)
    IN  IF np # c.node.paddingLeft
        THEN Count(HostMutate(c, "set", PaddingFields, [k \in Range(PaddingFields) |-> np]),
                   1, "padding")
        ELSE c

\* Lines 787-843: padding and item spacing of auto layout containers.
StepAutoLayout(c, options) ==
    IF c.thrown \/ ~hasAutoLayout(c.node) THEN c
    ELSE IF UniformPadding(c.node)
         THEN RoundDimensionFields(RoundUniformPadding(c, options), <<"itemSpacing">>, options)
         ELSE RoundDimensionFields(c, PaddingFields \o <<"itemSpacing">>, options)

\* Lines 845-856: rotation, with the run's single roundingFactor.
StepRotation(c, roundingFactor, options) ==
    IF c.thrown \/ ~Has(c.node, "rotation") THEN c
    ELSE LET nr == applyRoundingStrategy(c.node.rotation, roundingFactor, options.roundingStrategy)
         IN  IF nr # c.node.rotation THEN Assign(c, "rotation", nr, "rotation") ELSE c

\* `options.roundingFactorByProperty.g || fallback`: 0 (and NaN, undefined)
\* is falsy and selects the fallback.
FactorOr(options, g, fallback) ==
    IF Has(options.roundingFactorByProperty, g) /\ options.roundingFactorByProperty[g] # 0
    THEN options.roundingFactorByProperty[g]
    ELSE fallback

\* A write of the rounded value that always names the unit PIXELS.
RoundUnitFieldAsPixels(c, f, factor, options) ==
    IF c.thrown \/ ~Has(c.node, f) THEN c
    ELSE LET lh == c.node[f]
         IN  IF lh.unit \in {"PIXELS", "PERCENT"}
             THEN LET nv == applyRoundingStrategy(lh.value, factor, options.roundingStrategy)
                  IN  IF nv # lh.value
                      THEN Assign(c, f, [unit |-> "PIXELS", value |-> nv], f)
                      ELSE c
             ELSE c

\* Lines 872-889 and 892-908: a {unit, value} field is rounded when its unit
\* is PIXELS or PERCENT, and written back with the same unit.
RoundUnitField(c, f, factor, options) ==
    IF c.thrown \/ ~Has(c.node, f) THEN c
    ELSE LET lh == c.node[f]
         IN  IF lh.unit \in {"PIXELS", "PERCENT"}
             THEN LET nv == applyRoundingStrategy(lh.value, factor, options.roundingStrategy)
                  IN  IF nv # lh.value
                      THEN Assign(c, f, [unit |-> lh.unit, value |-> nv], f)
                      ELSE c
             ELSE c

\* Lines 858-909: text properties, after the font has been loaded.
StepText(c, options) ==
    IF c.thrown \/ c.node.type # "TEXT" THEN c
    ELSE LET c0 == [c EXCEPT !.calls = Append(@, Call("loadFontAsync", <<>>))]
             ns == applyRoundingStrategy(c0.node.fontSize, options.roundingFactorByProperty.fontSize,
                                         options.roundingStrategy)
             c1 == IF Has(c0.node, "fontSize") /\ ns # c0.node.fontSize
                   THEN Assign(c0, "fontSize", ns, "fontSize")
                   ELSE c0
             c2 == RoundUnitField(c1, "lineHeight", FactorOr(options, "lineHeight", Unit), options)
         IN  RoundUnitField(c2, "letterSpacing", FactorOr(options, "fontSize", Unit), options)

\* Line 922: a segment of the rounded network that still refers to vertices
\* of the list.  Indices are numbers like any other (index k is k * Unit).
ValidSegment(segment, vertexCount) ==
    /\ segment.t = "object"
    /\ Has(segment.v, "start") /\ segment.v.start.t = "number"
    /\ Has(segment.v, "end") /\ segment.v.end.t = "number"
    /\ segment.v.start.v >= 0 /\ segment.v.end.v >= 0
    /\ segment.v.start.v < vertexCount * Unit
    /\ segment.v.end.v < vertexCount * Unit

\* Lines 915-929: the network handed to setVectorNetworkAsync.
ValidNetwork(newNetwork) ==
    Obj([vertices |-> newNetwork.v.vertices,
         segments |-> Arr(SelectSeq(newNetwork.v.segments.v,
                                    LAMBDA sg : ValidSegment(sg, Len(newNetwork.v.vertices.v))))])

\* Line 918: newNetwork?.vertices?.length > 0 && newNetwork?.segments?.length > 0
HasGeometry(newNetwork) ==
    /\ Has(newNetwork.v, "vertices") /\ Len(newNetwork.v.vertices.v) > 0
    /\ Has(newNetwork.v, "segments") /\ Len(newNetwork.v.segments.v) > 0

\* Lines 911-945: the vector network.  JSON.stringify equality is equality of
\* the values (roundDeepValues keeps the key order).  A failure of
\* setVectorNetworkAsync is caught by the inner catch: it is counted and the
\* function goes on with the effects.
StepVector(c, options) ==
    IF c.thrown \/ ~(options.roundVectors /\ Has(c.node, "vectorNetwork")) THEN c
    ELSE LET newNetwork == roundDeepValues(c.node.vectorNetwork,
                                           options.roundingFactorByProperty.vectors,
                                           options.roundingStrategy)
         IN  IF HasGeometry(newNetwork) /\ ValidNetwork(newNetwork) # c.node.vectorNetwork
             THEN IF c.broken
                  THEN [c EXCEPT !.errorCount = @ + 1, !.failed = TRUE]
                  ELSE Count(HostMutate(c, "setVectorNetworkAsync", <<>>,
                                        "vectorNetwork" :> ValidNetwork(newNetwork)),
                             1, "vectorNetwork")
             ELSE c

\* Line 949: node.effects.map(effect => roundDeepValues(effect, ...))
RoundedEffects(effects, options) ==
    [i \in 1..Len(effects) |->
        roundDeepValues(effects[i], options.roundingFactorByProperty.effects,
                        options.roundingStrategy)]

\* Lines 947-955: the effects list is replaced when its rounded copy differs.
StepEffects(c, options) ==
    IF c.thrown \/ ~(options.roundEffects /\ Has(c.node, "effects")) THEN c
    ELSE IF RoundedEffects(c.node.effects, options) # c.node.effects
         THEN Assign(c, "effects", RoundedEffects(c.node.effects, options), "effects")
         ELSE c

\* The corner fields a node has, set to v (the host keeps the corners of a
\* node equal to its numeric cornerRadius).
CornerFields == {"topLeftRadius", "topRightRadius", "bottomRightRadius", "bottomLeftRadius"}

WithCorners(node, v) ==
    [k \in (DOMAIN node) \cap (CornerFields \cup {"cornerRadius"}) |-> v]

\* `node.f || 0`
OrZero(node, f) == IF Has(node, f) THEN node[f] ELSE 0

\* Lines 957-973: the uniform corner radius, through setCornerRadius when the
\* node has it, by assignment for the four shape types, otherwise not at all.
StepCornerRadius(c, roundingFactor, options) ==
    IF c.thrown \/ ~Has(c.node, "cornerRadius") THEN c
    ELSE LET nr == applyRoundingStrategy(c.node.cornerRadius,
                                         FactorOr(options, "cornerRadius", roundingFactor),
                                         options.roundingStrategy)
         IN  IF nr = c.node.cornerRadius THEN c
             ELSE IF "setCornerRadius" \in c.node.methods
                  THEN Count(HostMutate(c, "setCornerRadius", <<nr>>, WithCorners(c.node, nr)),
                             1, "cornerRadius")
             ELSE IF c.node.type \in {"RECTANGLE", "ELLIPSE", "POLYGON", "STAR"}
                  THEN Count(HostMutate(c, "set", <<"cornerRadius">>, WithCorners(c.node, nr)),
                             1, "cornerRadius")
             ELSE c

\* applyRoundingStrategy of a corner field with the corner radius factor.
RoundCorner(node, f, roundingFactor, options) ==
    applyRoundingStrategy(node[f], FactorOr(options, "cornerRadius", roundingFactor),
                          options.roundingStrategy)

\* setCornerRadii([topLeft, topRight, bottomRight, bottomLeft])
SetCornerRadii(c, tl, tr, br, bl, name) ==
    Count(HostMutate(c, "setCornerRadii", <<tl, tr, br, bl>>,
                     ("topLeftRadius" :> tl) @@ ("topRightRadius" :> tr)
                     @@ ("bottomRightRadius" :> br) @@ ("bottomLeftRadius" :> bl)),
          1, name)

\* Lines 975-1001: the individual corner radii, only through setCornerRadii.
StepCornerRadii(c, roundingFactor, options) ==
    LET n == c.node
    IN  IF c.thrown THEN c
        ELSE IF Has(n, "topLeftRadius")
        THEN IF RoundCorner(n, "topLeftRadius", roundingFactor, options) # n.topLeftRadius
                /\ "setCornerRadii" \in n.methods
             THEN SetCornerRadii(c, RoundCorner(n, "topLeftRadius", roundingFactor, options),
                                 OrZero(n, "topRightRadius"), OrZero(n, "bottomRightRadius"),
                                 OrZero(n, "bottomLeftRadius"), "topLeftRadius")
             ELSE c
        ELSE IF (Has(n, "topRightRadius") \/ Has(n, "bottomRightRadius") \/ Has(n, "bottomLeftRadius"))
                /\ "setCornerRadii" \in n.methods
        THEN LET tl == 0
                 tr == IF Has(n, "topRightRadius")
                       THEN RoundCorner(n, "topRightRadius", roundingFactor, options) ELSE 0
                 br == IF Has(n, "bottomRightRadius")
                       THEN RoundCorner(n, "bottomRightRadius", roundingFactor, options) ELSE 0
                 bl == IF Has(n, "bottomLeftRadius")
                       THEN RoundCorner(n, "bottomLeftRadius", roundingFactor, options) ELSE 0
             IN  IF tr # OrZero(n, "topRightRadius") \/ br # OrZero(n, "bottomRightRadius")
                    \/ bl # OrZero(n, "bottomLeftRadius")
                 THEN SetCornerRadii(c, tl, tr, br, bl, "cornerRadii")
                 ELSE c
        ELSE c

\* `options.ignoreTypes && options.ignoreTypes.indexOf(node.type) !== -1`
Ignored(node, options) == node.type \in options.ignoreTypes

\* The context at the entry of processNodeProperties.
EntryContext(node, broken) ==
    [node |-> node, broken |-> broken, thrown |-> FALSE, failed |-> FALSE,
     nodesProcessed |-> 0, propertiesRounded |-> 0, errorCount |-> 0,
     modifiedProperties |-> {}, calls |-> <<>>]

\* The catch block of lines 1002-1005.
CatchNodeError(c) ==
    IF c.thrown THEN [c EXCEPT !.thrown = FALSE, !.errorCount = @ + 1] ELSE c

\* The statement groups of the function body, in the order of the code.
NodeStep(i, c, roundingFactor, options) ==
    CASE i = 1 -> StepPosition(c, roundingFactor, options)
      [] i = 2 -> StepSize(c, options)
      [] i = 3 -> StepAutoLayout(c, options)
      [] i = 4 -> StepRotation(c, roundingFactor, options)
      [] i = 5 -> StepText(c, options)
      [] i = 6 -> StepVector(c, options)
      [] i = 7 -> StepEffects(c, options)
      [] i = 8 -> StepCornerRadius(c, roundingFactor, options)
      [] OTHER -> StepCornerRadii(c, roundingFactor, options)

RECURSIVE RunNodeSteps(_, _, _, _)
RunNodeSteps(i, c, roundingFactor, options) ==
    IF i > 9 THEN c
    ELSE RunNodeSteps(i + 1, NodeStep(i, c, roundingFactor, options), roundingFactor, options)

\* processNodeProperties(node, roundingFactor, options, stats): the context at
\* its return.  An ignored type returns before the node is counted.
processNodeProperties(node, roundingFactor, options, broken) ==
    IF Ignored(node, options) THEN EntryContext(node, broken)
    ELSE CatchNodeError(
            RunNodeSteps(1, [EntryContext(node, broken) EXCEPT !.nodesProcessed = 1],
                         roundingFactor, options))

(***************************************************************************)
(* previewRoundingChanges.previewNode: the entries pushed on the change    *)
(* list of one node, in the order of the code.                             *)
(***************************************************************************)
\* `if (to !== from) changes.push({property, from, to})`
Change(property, from, to) ==
    IF to # from THEN <<[property |-> property, from |-> from, to |-> to]>> ELSE <<>>

\* One `if (f in node) { round with factor; push if different }` block.
PreviewField(node, f, factor, options) ==
    IF Has(node, f)
    THEN Change(f, node[f], applyRoundingStrategy(node[f], factor, options.roundingStrategy))
    ELSE <<>>

\* Lines 451-487: width and height, with or without preserveProportions.
PreviewSize(node, options) ==
    IF Has(node, "width") /\ Has(node, "height")
    THEN LET f  == options.roundingFactorByProperty.dimensions
             s  == options.roundingStrategy
             pp == preserveProportions(node.width, node.height, f, s)
             nw == IF options.preserveProportions THEN Ticks(pp[1])
                   ELSE applyRoundingStrategy(node.width, f, s)
             nh == IF options.preserveProportions THEN Ticks(pp[2])
                   ELSE applyRoundingStrategy(node.height, f, s)
         IN  Change("width", node.width, nw) \o Change("height", node.height, nh)
    ELSE <<>>

\* Lines 502-546: a {unit, value} field; PERCENT is reported as "f (%)".
PreviewUnitField(node, f, factor, options) ==
    IF Has(node, f) /\ node[f].unit \in {"PIXELS", "PERCENT"}
    THEN Change(IF node[f].unit = "PIXELS" THEN f ELSE f \o " (%)",
                node[f].value,
                applyRoundingStrategy(node[f].value, factor, options.roundingStrategy))
    ELSE <<>>

\* Lines 489-547.
PreviewText(node, options) ==
    IF node.type = "TEXT"
    THEN PreviewField(node, "fontSize", options.roundingFactorByProperty.fontSize, options)
         \o PreviewUnitField(node, "lineHeight", FactorOr(options, "lineHeight", Unit), options)
         \o PreviewUnitField(node, "letterSpacing", FactorOr(options, "fontSize", Unit), options)
    ELSE <<>>

\* Lines 549-563: only the radius of each effect is previewed.
RECURSIVE PreviewEffectsFrom(_, _, _)
PreviewEffectsFrom(effects, i, options) ==
    IF i > Len(effects) THEN <<>>
    ELSE (IF Has(effects[i].v, "radius")
          THEN Change("effect[" \o ToString(i - 1) \o "].radius",
                      effects[i].v.radius.v,
                      applyRoundingStrategy(effects[i].v.radius.v,
                                            options.roundingFactorByProperty.effects,
                                            options.roundingStrategy))
          ELSE <<>>)
         \o PreviewEffectsFrom(effects, i + 1, options)

PreviewEffects(node, options) ==
    IF options.roundEffects /\ Has(node, "effects")
    THEN PreviewEffectsFrom(node.effects, 1, options)
    ELSE <<>>

\* Lines 565-620: the uniform radius and the four corners, one by one.
PreviewRadii(node, roundingFactor, options) ==
    LET f == FactorOr(options, "cornerRadius", roundingFactor)
    IN  PreviewField(node, "cornerRadius", f, options)
        \o PreviewField(node, "topLeftRadius", f, options)
        \o PreviewField(node, "topRightRadius", f, options)
        \o PreviewField(node, "bottomLeftRadius", f, options)
        \o PreviewField(node, "bottomRightRadius", f, options)

\* Lines 429-620 for one node.
PreviewNodeChanges(node, roundingFactor, options) ==
    PreviewField(node, "x", roundingFactor, options)
    \o PreviewField(node, "y", roundingFactor, options)
    \o PreviewSize(node, options)
    \o PreviewText(node, options)
    \o PreviewEffects(node, options)
    \o PreviewRadii(node, roundingFactor, options)

(***************************************************************************)
(* The scene.  The page's tree is fixed (the plugin never re-parents a     *)
(* node); the values of the nodes' properties are the state.               *)
(*                                                                         *)
(*    page +- 1 FRAME -+- 2 INSTANCE (auto layout) --- 4 RECTANGLE         *)
(*         |           +- 3 TEXT                                           *)
(*         +- 5 GROUP ---- 6 VECTOR                                        *)
(***************************************************************************)
NodeIds == 1..6

PageChildren == <<1, 5>>

Children(n) ==
    CASE n = 1 -> <<2, 3>>
      [] n = 2 -> <<4>>
      [] n = 5 -> <<6>>
      [] OTHER -> <<>>

NodeType(n) ==
    CASE n = 1 -> "FRAME"
      [] n = 2 -> "INSTANCE"
      [] n = 3 -> "TEXT"
      [] n = 4 -> "RECTANGLE"
      [] n = 5 -> "GROUP"
      [] OTHER -> "VECTOR"

\* `"children" in node`
HasChildren(n) == NodeType(n) \in {"FRAME", "INSTANCE", "GROUP"}

\* node.findAll(): every descendant, in document order.
RECURSIVE FindAllIn(_)
FindAllIn(kids) ==
    IF kids = <<>> THEN <<>>
    ELSE <<Head(kids)>> \o FindAllIn(Children(Head(kids))) \o FindAllIn(Tail(kids))

\* figma.currentPage.findAll()
PageFindAll == FindAllIn(PageChildren)

Descendants(n) == Range(FindAllIn(Children(n)))

\* A value of k units, half a unit off the integer grid when `off`.
V(k, off) == k * Unit + (IF off THEN Unit \div 2 ELSE 0)

\* A drop shadow whose offset and radius are V(4, off); its colour has the
\* usual fractional alpha.
Shadow(off) ==
    Obj([type    |-> Str("DROP_SHADOW"),
         color   |-> Obj([r |-> Num(0), g |-> Num(0), b |-> Num(0), a |-> Num(Unit \div 4)]),
         offset  |-> Obj([x |-> Num(0), y |-> Num(V(4, off))]),
         radius  |-> Num(V(4, off)),
         spread  |-> Num(0),
         visible |-> Bool(TRUE)])

Vertex(x, y) == Obj([x |-> Num(x), y |-> Num(y)])

Segment(a, b) == Obj([start |-> Num(a * Unit), end |-> Num(b * Unit)])

\* A three-vertex open path.
Network(off) ==
    Obj([vertices |-> Arr(<<Vertex(0, 0), Vertex(V(2, off), 0), Vertex(V(2, off), 4 * Unit)>>),
         segments |-> Arr(<<Segment(0, 1), Segment(1, 2)>>)])

\* The methods of the host's node objects: resize always; the corner radius
\* setters the code probes for only when `setters`.
Methods(setters) ==
    {"resize"} \cup (IF setters THEN {"setCornerRadius", "setCornerRadii"} ELSE {})

SceneNode(n, off, setters) ==
    CASE n = 1 ->
        [type |-> "FRAME", methods |-> Methods(setters),
         x |-> V(10, off), y |-> 20 * Unit, width |-> V(12, off), height |-> 8 * Unit,
         rotation |-> 0, layoutMode |-> "NONE",
         primaryAxisSizingMode |-> "AUTO", counterAxisSizingMode |-> "FIXED",
         paddingLeft |-> 0, paddingRight |-> 0, paddingTop |-> 0, paddingBottom |-> 0,
         itemSpacing |-> 0, effects |-> <<Shadow(off)>>,
         topLeftRadius |-> V(4, off), topRightRadius |-> V(4, off),
         bottomRightRadius |-> 0, bottomLeftRadius |-> 0]
      [] n = 2 ->
        [type |-> "INSTANCE", methods |-> Methods(setters),
         x |-> V(1, off), y |-> 2 * Unit, width |-> V(6, off), height |-> 4 * Unit,
         rotation |-> 0, layoutMode |-> "HORIZONTAL",
         primaryAxisSizingMode |-> "FIXED", counterAxisSizingMode |-> "AUTO",
         paddingLeft |-> V(1, off), paddingRight |-> V(1, off),
         paddingTop |-> V(1, off), paddingBottom |-> V(1, off),
         itemSpacing |-> V(2, off), effects |-> <<>>,
         cornerRadius |-> V(2, off),
         topLeftRadius |-> V(2, off), topRightRadius |-> V(2, off),
         bottomRightRadius |-> V(2, off), bottomLeftRadius |-> V(2, off)]
      [] n = 3 ->
        [type |-> "TEXT", methods |-> Methods(setters),
         x |-> V(1, off), y |-> 2 * Unit, width |-> V(5, off), height |-> 3 * Unit,
         rotation |-> 0, fontSize |-> V(11, off),
         lineHeight |-> IF setters THEN [unit |-> "AUTO"]
                        ELSE [unit |-> "PIXELS", value |-> V(14, off)],
         letterSpacing |-> [unit |-> "PERCENT", value |-> V(0, off)],
         textAutoResize |-> "NONE", autoRename |-> FALSE, effects |-> <<>>]
      [] n = 4 ->
        [type |-> "RECTANGLE", methods |-> Methods(setters),
         x |-> V(0, off), y |-> 0, width |-> V(3, off), height |-> V(3, off),
         rotation |-> 0, effects |-> <<>>,
         cornerRadius |-> V(1, off),
         topLeftRadius |-> V(1, off), topRightRadius |-> V(1, off),
         bottomRightRadius |-> V(1, off), bottomLeftRadius |-> V(1, off)]
      [] n = 5 ->
        [type |-> "GROUP", methods |-> Methods(setters),
         x |-> V(30, off), y |-> 0, width |-> V(2, off), height |-> 3 * Unit,
         rotation |-> 0, effects |-> <<>>]
      [] OTHER ->
        [type |-> "VECTOR", methods |-> Methods(setters),
         x |-> V(30, off), y |-> 0, width |-> V(2, off), height |-> 3 * Unit,
         rotation |-> 0, effects |-> <<>>, cornerRadius |-> 0,
         vectorNetwork |-> Network(off)]

\* The scene whose nodes in `offGrid` have off-grid values.
SceneOf(offGrid, setters) == [n \in NodeIds |-> SceneNode(n, n \in offGrid, setters)]

(***************************************************************************)
(* State.                                                                  *)
(***************************************************************************)
VARIABLES
    scene,      \* node id -> node record: the host's scene graph values
    selection,  \* figma.currentPage.selection, a sequence of node ids
    broken,     \* the nodes whose mutations the host rejects (it throws)
    options,    \* the panel's RoundingOptions (ui.tsx, `options`)
    pc,         \* "idle", "preview", "apply", "previewed", "applied"; "call"
                \* while a numeric helper is called on its own
    run,        \* locals of the running previewRoundingChanges / roundPixels /
                \* selectAndRoundType call
    stats,      \* the RoundingStats of the message being handled
    changes,    \* the `changes` object of previewRoundingChanges
    outbox,     \* the messages posted to the panel for the current request
    ui,         \* the panel's state: previewChanges, excludedNodes, stats
    hist        \* history of the current run, for stating the properties

vars == <<scene, selection, broken, options, pc, run, stats, changes, outbox, ui, hist>>

\* The most requests one behaviour makes of the plugin.
MaxRequests == 2

\* The most nodes the user excludes in the preview dialog.
MaxExcluded == 1

Null == [null |-> TRUE]

Undefined == [undefined |-> TRUE]

\* The panel's options (ui.tsx:55-70; no ignoreTypes), with the "round
\* vectors" switch on as in DEFAULT_OPTIONS (code.ts:36-51).
BaseOptions ==
    [detachInstances |-> FALSE, roundEffects |-> TRUE, roundVectors |-> TRUE,
     preserveProportions |-> TRUE, roundingStrategy |-> "round", ignoreTypes |-> {},
     roundingFactorByProperty |->
        [dimensions |-> Unit, fontSize |-> Unit, effects |-> Unit,
         vectors |-> Unit, lineHeight |-> Unit, cornerRadius |-> Unit]]

\* The configurations explored.
OptionChoices ==
    { BaseOptions,
      [BaseOptions EXCEPT !.detachInstances = TRUE],
      [BaseOptions EXCEPT !.ignoreTypes = {"GROUP"}],
      [BaseOptions EXCEPT !.roundingStrategy = "floor", !.preserveProportions = FALSE,
                          !.roundingFactorByProperty.dimensions = 2 * Unit],
      [BaseOptions EXCEPT !.roundingStrategy = "ceil", !.roundEffects = FALSE,
                          !.roundVectors = FALSE],
      [BaseOptions EXCEPT !.roundingFactorByProperty.vectors = 2 * Unit],
      [BaseOptions EXCEPT !.roundingFactorByProperty =
          [dimensions |-> 0, fontSize |-> 0 - Unit, effects |-> 0,
           vectors |-> 0 - Unit, lineHeight |-> 0, cornerRadius |-> 0]] }

\* The selections explored: none, a container, a node and its ancestor in
\* both orders, a node inside an instance.
SelectionChoices == {<<>>, <<1>>, <<1, 3>>, <<3, 1>>, <<2, 5>>, <<4>>}

BrokenChoices == {{}, {1}, {6}}

SceneChoices == {SceneOf(NodeIds, FALSE), SceneOf(NodeIds, TRUE), SceneOf({}, FALSE)}

FreshStats ==
    [nodesProcessed |-> 0, propertiesRounded |-> 0, instancesSkipped |-> 0,
     errorCount |-> 0, modifiedProperties |-> {}]

FreshChanges == [nodeCount |-> 0, propertyChanges |-> <<>>, instancesSkipped |-> 0]

IdleRun ==
    [type |-> "none", roundingFactor |-> 0, selectionOnly |-> FALSE, todo |-> <<>>,
     processedNodes |-> {}, excludedSet |-> {}, processedCount |-> 0, totalNodes |-> 0,
     noSelection |-> FALSE]

\* The history of a run that starts: the number of requests made so far, the
\* scene at its start, the exclusion set the panel holds at that time, and
\* the start of the latest preview (whose report is in `changes`).  lastApply
\* is filled in by an apply run that starts right after another one.
FreshHist(requests, base, callerExcluded, lastPreview) ==
    [requests |-> requests, base |-> base, callerExcluded |-> callerExcluded,
     lastPreview |-> lastPreview, lastApply |-> Null,
     visits |-> [n \in NodeIds |-> 0], failed |-> FALSE, instances |-> {}]

InitWith(optionSet, selectionSet, brokenSet, sceneSet) ==
    /\ scene \in sceneSet
    /\ selection \in selectionSet
    /\ broken \in brokenSet
    /\ options \in optionSet
    /\ pc = "idle"
    /\ run = IdleRun
    /\ stats = FreshStats
    /\ changes = FreshChanges
    /\ outbox = <<>>
    /\ ui = [previewChanges |-> Null, excludedNodes |-> {}, stats |-> Null]
    /\ hist = FreshHist(0, scene, {}, Null)

Init == InitWith(OptionChoices, SelectionChoices, BrokenChoices, SceneChoices)

Post(msg) == outbox' = Append(outbox, msg)

\* No handler of the plugin is running, and another request may be made.
Ready == pc \in {"idle", "previewed", "applied"} /\ hist.requests < MaxRequests

(***************************************************************************)
(* Preview: handlePreview (ui.tsx:232) posts {type: "preview", options};   *)
(* the plugin's handler (code.ts:137-146) runs previewRoundingChanges with *)
(* the dimensions factor as roundingFactor and selectionOnly = there is a  *)
(* selection.  One step of the walk is one call of previewNode.            *)
(***************************************************************************)
UiPreview ==
    /\ Ready
    /\ ui.previewChanges = Null
    /\ pc' = "preview"
    /\ run' = [IdleRun EXCEPT !.type = "preview",
                              !.roundingFactor = options.roundingFactorByProperty.dimensions,
                              !.selectionOnly = (Len(selection) > 0),
                              !.todo = IF Len(selection) > 0 THEN selection ELSE PageFindAll]
    /\ stats' = FreshStats
    /\ changes' = FreshChanges
    /\ outbox' = <<>>
    /\ hist' = FreshHist(hist.requests + 1, scene, ui.excludedNodes,
                          [scene |-> scene, selectionOnly |-> (Len(selection) > 0),
                           roundingFactor |-> options.roundingFactorByProperty.dimensions])
    /\ UNCHANGED <<scene, selection, broken, options, ui>>

\* changes.propertyChanges after previewNode has handled the properties of
\* node n: the entry is created if missing and the node's changes pushed.
PushChanges(propertyChanges, n, node, roundingFactor, opts) ==
    LET entry == IF n \in DOMAIN propertyChanges THEN propertyChanges[n]
                 ELSE [type |-> node.type, changes |-> <<>>]
        added == [entry EXCEPT !.changes = @ \o PreviewNodeChanges(node, roundingFactor, opts)]
    IN  [m \in (DOMAIN propertyChanges) \cup {n} |->
            IF m = n THEN added ELSE propertyChanges[m]]

\* `node.type === "INSTANCE" && !options.detachInstances`
SkippedInstance(node, opts) == node.type = "INSTANCE" /\ ~opts.detachInstances

\* A previewNode that assigns the rounded values to the node, as
\* processNodeProperties does, instead of listing them.
PreviewStepWritingScene ==
    /\ pc = "preview"
    /\ run.todo # <<>>
    /\ LET n == Head(run.todo)
           c == processNodeProperties(scene[n], run.roundingFactor, options, FALSE)
       IN  /\ scene' = [scene EXCEPT ![n] = c.node]
           /\ hist' = [hist EXCEPT !.visits[n] = @ + 1]
           /\ changes' = [changes EXCEPT !.nodeCount = @ + 1]
           /\ run' = [run EXCEPT !.todo =
                         (IF HasChildren(n) THEN Children(n) ELSE <<>>) \o Tail(@)]
    /\ UNCHANGED <<selection, broken, options, pc, stats, outbox, ui>>

\* previewNode(node) for the node at the head of the pending calls; the
\* recursive calls for its children come before the calls still pending.
PreviewStep ==
    /\ pc = "preview"
    /\ run.todo # <<>>
    /\ LET n    == Head(run.todo)
           node == scene[n]
       IN  /\ hist' = [hist EXCEPT !.visits[n] = @ + 1]
           /\ IF Ignored(node, options)
              THEN /\ changes' = [changes EXCEPT !.nodeCount = @ + 1]
                   /\ run' = [run EXCEPT !.todo = Tail(@)]
              ELSE IF SkippedInstance(node, options)
              THEN /\ changes' = [changes EXCEPT !.nodeCount = @ + 1,
                                                 !.instancesSkipped = @ + 1]
                   /\ run' = [run EXCEPT !.todo = Tail(@)]
              ELSE /\ changes' = [changes EXCEPT
                                    !.nodeCount = @ + 1,
                                    !.propertyChanges =
                                        PushChanges(@, n, node, run.roundingFactor, options)]
                   /\ run' = [run EXCEPT !.todo =
                                 (IF HasChildren(n) THEN Children(n) ELSE <<>>) \o Tail(@)]
    /\ UNCHANGED <<scene, selection, broken, options, pc, stats, outbox, ui>>

\* Lines 643-648: entries without changes are deleted.
Pruned(propertyChanges) ==
    [n \in {m \in DOMAIN propertyChanges : Len(propertyChanges[m].changes) > 0} |->
        propertyChanges[n]]

\* Line 655: the total number of reported changes.
RECURSIVE CountChanges(_, _)
CountChanges(propertyChanges, ids) ==
    IF ids = {} THEN 0
    ELSE LET n == CHOOSE m \in ids : TRUE
         IN  Len(propertyChanges[n].changes) + CountChanges(propertyChanges, ids \ {n})

\* Lines 650-659: the message previewRoundingChanges posts itself.
PreviewCompleteWithStats(ch) ==
    [type |-> "preview-complete", changes |-> ch,
     stats |-> [nodesProcessed |-> ch.nodeCount,
                propertiesRounded |-> CountChanges(ch.propertyChanges, DOMAIN ch.propertyChanges),
                instancesSkipped |-> ch.instancesSkipped,
                errorCount |-> 0]]

\* Line 145: the message the handler posts with the returned changes.
PreviewCompleteOfHandler(ch) == [type |-> "preview-complete", changes |-> ch]

\* ui.tsx:139-145, for a message with or without a `stats` field.
OnPreviewComplete(u, msg) ==
    [u EXCEPT !.stats = IF "stats" \in DOMAIN msg THEN msg.stats ELSE Undefined,
              !.previewChanges = msg.changes]

\* The walk is over: prune, post, return; the handler posts again.  The
\* panel handles the two messages in the order posted.
PreviewFinish ==
    /\ pc = "preview"
    /\ run.todo = <<>>
    /\ LET ch == [changes EXCEPT !.propertyChanges = Pruned(@)]
           m1 == PreviewCompleteWithStats(ch)
           m2 == PreviewCompleteOfHandler(ch)
       IN  /\ changes' = ch
           /\ outbox' = outbox \o <<m1, m2>>
           /\ ui' = OnPreviewComplete(OnPreviewComplete(ui, m1), m2)
    /\ pc' = "previewed"
    /\ UNCHANGED <<scene, selection, broken, options, run, stats, hist>>

(***************************************************************************)
(* The preview dialog: toggling a node's exclusion, Cancel.                *)
(***************************************************************************)
\* A dialog that offers the exclusion toggle for every node of the page.
UiToggleAnyNode(n) ==
    /\ pc \in {"idle", "previewed", "applied"}
    /\ ui.previewChanges # Null
    /\ LET newExcluded == IF n \in ui.excludedNodes THEN ui.excludedNodes \ {n}
                          ELSE ui.excludedNodes \cup {n}
       IN  /\ Cardinality(newExcluded) <= MaxExcluded
           /\ ui' = [ui EXCEPT !.excludedNodes = newExcluded]
    /\ UNCHANGED <<scene, selection, broken, options, pc, run, stats, changes, outbox, hist>>

\* handleToggleNodeExclusion (ui.tsx:246-257) for a node listed in the dialog.
UiToggleExclusion(n) ==
    /\ pc \in {"idle", "previewed", "applied"}
    /\ ui.previewChanges # Null
    /\ n \in DOMAIN ui.previewChanges.propertyChanges
    /\ LET newExcluded == IF n \in ui.excludedNodes THEN ui.excludedNodes \ {n}
                          ELSE ui.excludedNodes \cup {n}
       IN  /\ Cardinality(newExcluded) <= MaxExcluded
           /\ ui' = [ui EXCEPT !.excludedNodes = newExcluded]
    /\ UNCHANGED <<scene, selection, broken, options, pc, run, stats, changes, outbox, hist>>

\* The dialog's Cancel button (ui.tsx:515-519).
UiCancel ==
    /\ pc \in {"idle", "previewed", "applied"}
    /\ ui.previewChanges # Null
    /\ ui' = [ui EXCEPT !.previewChanges = Null]
    /\ UNCHANGED <<scene, selection, broken, options, pc, run, stats, changes, outbox, hist>>

(***************************************************************************)
(* Apply: handleApply (ui.tsx:260-277) posts {type: "run" (selection) or   *)
(* "select-and-run" (document), options, excludedNodes} and no             *)
(* roundingFactor; the handler (code.ts:148-168) runs selectAndRoundType   *)
(* or roundPixels.  One step of the walk is one call of traverseChildren.  *)
(***************************************************************************)
\* The default parameter `roundingFactor: number = 1` for a message field
\* that is absent (<<>>) or present (<<f>>).
RoundingFactorOf(msgFactor) == IF msgFactor = <<>> THEN Unit ELSE msgFactor[1]

\* A total that counts the selected nodes and not their descendants.
SelectionCount(sel) == Len(sel)

\* Lines 1086-1095: each selected node and, for a container, its findAll().
RECURSIVE SelectionTotal(_)
SelectionTotal(sel) ==
    IF sel = <<>> THEN 0
    ELSE 1 + (IF HasChildren(Head(sel)) THEN Len(FindAllIn(Children(Head(sel)))) ELSE 0)
           + SelectionTotal(Tail(sel))

Progress(phase, num, den) ==
    [type |-> "progress-update", phase |-> phase, progress |-> [n |-> num, d |-> den]]

\* The entry of selectAndRoundType ("run") or roundPixels ("select-and-run")
\* up to the first call of traverseChildren.
StartApply(type, msgFactor, excludedNodes) ==
    /\ pc' = "apply"
    /\ run' = [type |-> type,
               roundingFactor |-> RoundingFactorOf(msgFactor),
               selectionOnly |-> (type = "run"),
               todo |-> IF type = "run" THEN selection ELSE PageFindAll,
               processedNodes |-> {},
               excludedSet |-> excludedNodes,
               processedCount |-> 0,
               totalNodes |-> IF type = "run" THEN SelectionTotal(selection)
                              ELSE Len(PageFindAll),
               noSelection |-> (type = "run" /\ Len(selection) = 0)]
    /\ stats' = FreshStats
    /\ outbox' = <<Progress("analyzing", 0, 1)>>
    /\ hist' = [FreshHist(hist.requests + 1, scene, excludedNodes, hist.lastPreview)
                   EXCEPT !.lastApply =
                      IF pc = "applied"
                      THEN [type |-> run.type, excludedSet |-> run.excludedSet,
                            errorCount |-> stats.errorCount]
                      ELSE Null]
    /\ UNCHANGED <<scene, selection, broken, options, changes>>

\* "Round Selection" / "Round Document" (ui.tsx:419-449), reachable when the
\* preview dialog is not covering them.
UiApply(selectionOnly) ==
    /\ Ready
    /\ ui.previewChanges = Null
    /\ StartApply(IF selectionOnly THEN "run" ELSE "select-and-run", <<>>, ui.excludedNodes)
    /\ UNCHANGED ui

\* The dialog's "Apply Changes" (ui.tsx:525-530): handleApply(true), then the
\* dialog is closed.
UiApplyChanges ==
    /\ Ready
    /\ ui.previewChanges # Null
    /\ StartApply("run", <<>>, ui.excludedNodes)
    /\ ui' = [ui EXCEPT !.previewChanges = Null]

\* A traversal that gives up the pending calls when processNodeProperties
\* reports a failure.
AfterNodeAbortOnFailure(n, c, pending) ==
    IF c.failed THEN <<>>
    ELSE IF HasChildren(n) /\ c.node.type # "INSTANCE"
    THEN Children(n) \o pending
    ELSE pending

\* The calls of traverseChildren that follow processNodeProperties of node
\* n, which returned context c: the node's children, unless it has none or
\* is an instance, then the pending calls.  processNodeProperties has caught
\* its errors, so the traversal goes on whatever c reports.
AfterNode(n, c, pending) ==
    IF HasChildren(n) /\ c.node.type # "INSTANCE"
    THEN Children(n) \o pending
    ELSE pending

\* A guard that consults the exclusion set only.
SkipNodeExcludedOnly(n, r) == n \in r.excludedSet

\* Line 1028 / 1109: `processedNodes.has(node.id) || excludedSet.has(node.id)`
SkipNode(n, r) == n \in r.processedNodes \/ n \in r.excludedSet

\* stats after processNodeProperties returned context c.
AddStats(st, c) ==
    [st EXCEPT !.nodesProcessed = @ + c.nodesProcessed,
               !.propertiesRounded = @ + c.propertiesRounded,
               !.errorCount = @ + c.errorCount,
               !.modifiedProperties = @ \cup c.modifiedProperties]

\* traverseChildren(node) for the node at the head of the pending calls.
ApplyStep ==
    /\ pc = "apply"
    /\ run.todo # <<>>
    /\ LET n == Head(run.todo)
           c == processNodeProperties(scene[n], run.roundingFactor, options, n \in broken)
       IN  IF SkipNode(n, run)
           THEN /\ run' = [run EXCEPT !.todo = Tail(@)]
                /\ UNCHANGED <<scene, stats, outbox, hist>>
           ELSE /\ scene' = [scene EXCEPT ![n] = c.node]
                /\ stats' = AddStats(stats, c)
                /\ run' = [run EXCEPT !.processedNodes = @ \cup {n},
                                      !.processedCount = @ + 1,
                                      !.todo = AfterNode(n, c, Tail(@))]
                /\ Post(Progress("processing", run.processedCount + 1, run.totalNodes))
                /\ hist' = [hist EXCEPT
                              !.visits[n] = @ + 1,
                              !.failed = @ \/ c.failed,
                              !.instances = @ \cup (IF scene[n].type = "INSTANCE" THEN {n} ELSE {})]
    /\ UNCHANGED <<selection, broken, options, pc, changes, ui>>

\* The stats object as it arrives in the panel (a Set does not survive
\* postMessage as a set; the panel reads the four counters).
StatsMessage(st) ==
    [nodesProcessed |-> st.nodesProcessed, propertiesRounded |-> st.propertiesRounded,
     instancesSkipped |-> st.instancesSkipped, errorCount |-> st.errorCount]

\* The walk is over (or there was no selection): the "complete" progress of
\* lines 1066-1070 / 1152-1156, which the early return of line 1144 skips,
\* then the handler's apply-complete, on which the panel stores the stats
\* and closes the dialog (ui.tsx:146-153).
ApplyFinish ==
    /\ pc = "apply"
    /\ run.todo = <<>>
    /\ outbox' = outbox
                 \o (IF run.noSelection THEN <<>> ELSE <<Progress("complete", 1, 1)>>)
                 \o <<[type |-> "apply-complete", stats |-> StatsMessage(stats)]>>
    /\ ui' = [ui EXCEPT !.stats = StatsMessage(stats), !.previewChanges = Null]
    /\ pc' = "applied"
    /\ UNCHANGED <<scene, selection, broken, options, run, stats, changes, hist>>

Next ==
    \/ UiPreview
    \/ PreviewStep
    \/ PreviewFinish
    \/ \E n \in NodeIds : UiToggleExclusion(n)
    \/ UiCancel
    \/ \E selectionOnly \in BOOLEAN : UiApply(selectionOnly)
    \/ UiApplyChanges
    \/ ApplyStep
    \/ ApplyFinish

Spec == Init /\ [][Next]_vars

(***************************************************************************)
(* The numeric helpers called on their own.  `run` holds the arguments of  *)
(* one call and the values returned so far; the other variables keep the   *)
(* values of an idle plugin.  applyRoundingStrategy is called on doubles   *)
(* and then again on its own result; preserveProportions and               *)
(* roundDeepValues are called once, on tick values.                        *)
(***************************************************************************)
\* Applications of applyRoundingStrategy to its own result.
MaxCalls == 2

\* Widths and heights of preserveProportions calls: 0.25 .. MaxQuarters / 4.
MaxQuarters == 12

\* typeof null is "object", and `obj && ...` is false for it.
NullValue == [t |-> "null", v |-> Null]

\* 0.35, 0.3, 0.7, 7, 10.5, 60.48, 19.95 and -19.95, the halves 2.5, -2.5,
\* 59.5, -59.5, magnitudes below 0.001, zero, and 0.00100000001, which has
\* eleven decimals.
ValueChoices ==
    { Decimal(35, 2), Decimal(3, 1), Decimal(7, 1), Decimal(7, 0), Decimal(105, 1),
      Decimal(6048, 2), Decimal(1995, 2), Decimal(0 - 1995, 2),
      Decimal(25, 1), Decimal(0 - 25, 1), Decimal(595, 1), Decimal(0 - 595, 1),
      Decimal(5, 4), Decimal(0 - 5, 4), F64Zero, Decimal(100000001, 11) }

\* 1, 2, 0.5, 0.1, the invalid factors 0 and -1, and 0.00100000001.
FactorChoices ==
    { Decimal(1, 0), Decimal(2, 0), Decimal(5, 1), Decimal(1, 1),
      F64Zero, Decimal(0 - 1, 0), Decimal(100000001, 11) }

ApplyCalls ==
    { [fn |-> "applyRoundingStrategy", value |-> v, factor |-> f, strategy |-> s,
       results |-> <<>>]
      : v \in ValueChoices, f \in FactorChoices, s \in Strategies }

\* Apply runs over a text node of which only the font size is off the grid:
\* 19.95, 10.5, 7 or 60.48, with a font size factor of 1, 2, 0.5 or 0.1.
FontSizeCalls ==
    { [fn |-> "processNodeProperties", fontSize |-> v, factor |-> f, strategy |-> s,
       results |-> <<>>]
      : v \in {Decimal(1995, 2), Decimal(105, 1), Decimal(7, 0), Decimal(6048, 2)},
        f \in {Decimal(1, 0), Decimal(2, 0), Decimal(5, 1), Decimal(1, 1)},
        s \in Strategies }

ProportionCalls ==
    { [fn |-> "preserveProportions", width |-> w * (Unit \div 4),
       height |-> h * (Unit \div 4), factor |-> f, strategy |-> s, results |-> <<>>]
      : w \in 1..MaxQuarters, h \in 1..MaxQuarters, f \in {Unit, 2 * Unit},
        s \in Strategies }

\* Arguments of roundDeepValues: a number, an effect with a nested offset, a
\* list with nested lists and objects, and values that are no containers.
DeepChoices ==
    << Num(2600),
       Obj([type |-> Str("DROP_SHADOW"), radius |-> Num(4700), visible |-> Bool(TRUE),
            blendMode |-> NullValue,
            offset |-> Obj([x |-> Num(1500), y |-> Num(0 - 1500)]),
            stops |-> Arr(<<Num(300), Arr(<<Num(5100)>>)>>)]),
       Arr(<<Num(2600), Str("M 0 0"), Obj([x |-> Num(900), on |-> Bool(FALSE)]),
             NullValue>>),
       Arr(<<>>), Str("NORMAL"), Bool(TRUE), NullValue >>

DeepCall(o, f, s) ==
    [fn |-> "roundDeepValues", given |-> o, obj |-> o, factor |-> f, strategy |-> s,
     results |-> <<>>]

CallsInit ==
    /\ scene = SceneOf({}, FALSE)
    /\ selection = <<>>
    /\ broken = {}
    /\ options = BaseOptions
    /\ pc = "call"
    /\ \/ run \in ApplyCalls
       \/ run \in ProportionCalls
       \/ run \in FontSizeCalls
       \/ \E i \in DOMAIN DeepChoices, f \in {Unit, Unit \div 2, 0}, s \in Strategies :
             run = DeepCall(DeepChoices[i], f, s)
    /\ stats = FreshStats
    /\ changes = FreshChanges
    /\ outbox = <<>>
    /\ ui = [previewChanges |-> Null, excludedNodes |-> {}, stats |-> Null]
    /\ hist = FreshHist(0, scene, {}, Null)

Returned(call, result) == [call EXCEPT !.results = Append(@, result)]

\* applyRoundingStrategy(value, factor, strategy), then the same call on
\* the value it returned.
CallApplyRoundingStrategy ==
    /\ pc = "call"
    /\ run.fn = "applyRoundingStrategy"
    /\ Len(run.results) < MaxCalls
    /\ run' = Returned(run, applyRoundingStrategy64(
                              IF run.results = <<>> THEN run.value
                              ELSE run.results[Len(run.results)],
                              run.factor, run.strategy))
    /\ UNCHANGED <<scene, selection, broken, options, pc, stats, changes, outbox, ui, hist>>

CallPreserveProportions ==
    /\ pc = "call"
    /\ run.fn = "preserveProportions"
    /\ run.results = <<>>
    /\ run' = Returned(run, preserveProportions(run.width, run.height, run.factor,
                                                run.strategy))
    /\ UNCHANGED <<scene, selection, broken, options, pc, stats, changes, outbox, ui, hist>>

\* roundDeepValues(obj, factor, strategy): the function assigns to no field
\* of obj (arrays are mapped, objects are rebuilt in a fresh `result`).
CallRoundDeepValues ==
    /\ pc = "call"
    /\ run.fn = "roundDeepValues"
    /\ run.results = <<>>
    /\ run' = Returned(run, roundDeepValues(run.obj, run.factor, run.strategy))
    /\ UNCHANGED <<scene, selection, broken, options, pc, stats, changes, outbox, ui, hist>>

\* Lines 862-869 of one apply run: the font size the node has after the run
\* and the run's propertiesRounded.
processFontSize(fontSize, factor, strategy) ==
    LET newSize == applyRoundingStrategy64(fontSize, factor, strategy)
    IN  IF newSize # fontSize
        THEN [fontSize |-> newSize, propertiesRounded |-> 1]
        ELSE [fontSize |-> fontSize, propertiesRounded |-> 0]

\* An apply run over the text node, which has the font size the run before
\* left.
CallProcessFontSize ==
    /\ pc = "call"
    /\ run.fn = "processNodeProperties"
    /\ Len(run.results) < MaxCalls
    /\ run' = Returned(run, processFontSize(
                              IF run.results = <<>> THEN run.fontSize
                              ELSE run.results[Len(run.results)].fontSize,
                              run.factor, run.strategy))
    /\ UNCHANGED <<scene, selection, broken, options, pc, stats, changes, outbox, ui, hist>>

CallsNext ==
    \/ CallProcessFontSize
    \/ CallApplyRoundingStrategy
    \/ CallPreserveProportions
    \/ CallRoundDeepValues

Calls == CallsInit /\ [][CallsNext]_vars

(***************************************************************************)
(* The highlight overlay (code.ts:194-276).  The panel posts highlight-node *)
(* when a node name of the preview dialog is clicked and remove-highlight   *)
(* on a toggle, Cancel and Apply Changes.  figma.ui.onmessage is an async   *)
(* function: the host calls it for each message in the order posted, and a  *)
(* call that is suspended at `await figma.getNodeByIdAsync` lets the next    *)
(* message in.  `run` holds the messages posted and not yet handled, the    *)
(* handlers started, and the overlays on the page in child order; the other *)
(* variables keep the values of an idle plugin.                             *)
(***************************************************************************)
\* Messages the panel posts in one behaviour.
MaxMessages == 4

\* An id that getNodeByIdAsync resolves to null (the node was deleted).
MissingNode == 0

\* The ids the panel asks to highlight: a rectangle, a group, a deleted node.
HighlightTargets == {4, 5, MissingNode}

\* currentPage.findChild(node => node.name === "Temporary Highlight") and
\* remove(): the first overlay in child order goes, if there is one.
RemoveFirstHighlight(overlays) == IF overlays = <<>> THEN overlays ELSE Tail(overlays)

HighlightsInit ==
    /\ scene = SceneOf({}, FALSE)
    /\ selection = <<>>
    /\ broken = {}
    /\ options = BaseOptions
    /\ pc = "highlight"
    /\ run = [posted |-> 0, inbox |-> <<>>, handlers |-> <<>>, overlays |-> <<>>,
              created |-> 0]
    /\ stats = FreshStats
    /\ changes = FreshChanges
    /\ outbox = <<>>
    /\ ui = [previewChanges |-> Null, excludedNodes |-> {}, stats |-> Null]
    /\ hist = FreshHist(0, scene, {}, Null)

\* handleHighlightNode (ui.tsx:89-99)
UiHighlightNode(nodeId) ==
    /\ pc = "highlight"
    /\ run.posted < MaxMessages
    /\ run' = [run EXCEPT !.posted = @ + 1,
                          !.inbox = Append(@, [type |-> "highlight-node", nodeId |-> nodeId])]
    /\ UNCHANGED <<scene, selection, broken, options, pc, stats, changes, outbox, ui, hist>>

\* removeHighlight (ui.tsx:102-111)
UiRemoveHighlight ==
    /\ pc = "highlight"
    /\ run.posted < MaxMessages
    /\ run' = [run EXCEPT !.posted = @ + 1,
                          !.inbox = Append(@, [type |-> "remove-highlight",
                                               nodeId |-> MissingNode])]
    /\ UNCHANGED <<scene, selection, broken, options, pc, stats, changes, outbox, ui, hist>>

\* The handler of the oldest message runs up to its first await:
\* highlight-node removes the overlay it finds and suspends at
\* getNodeByIdAsync (lines 195-201), remove-highlight removes the overlay it
\* finds and is done (lines 271-276).
HandlerStarts ==
    /\ pc = "highlight"
    /\ run.inbox # <<>>
    /\ LET msg == Head(run.inbox)
       IN  run' = [run EXCEPT
                     !.inbox = Tail(@),
                     !.overlays = RemoveFirstHighlight(@),
                     !.handlers = Append(@, [type |-> msg.type, nodeId |-> msg.nodeId,
                                             at |-> IF msg.type = "highlight-node"
                                                    THEN "await" ELSE "done"])]
    /\ UNCHANGED <<scene, selection, broken, options, pc, stats, changes, outbox, ui, hist>>

\* The suspended handlers, oldest first.
Suspended == SelectSeq([i \in DOMAIN run.handlers |-> i],
                       LAMBDA i : run.handlers[i].at = "await")

\* The oldest suspended highlight-node handler resumes (lines 202-269): when
\* the node exists a rectangle is created on the page and named "Temporary
\* Highlight"; nothing in the rest of the handler looks for another overlay.
HandlerResumes ==
    /\ pc = "highlight"
    /\ Suspended # <<>>
    /\ LET i == Head(Suspended)
       IN  run' = IF run.handlers[i].nodeId \in NodeIds
                  THEN [run EXCEPT !.handlers[i].at = "done",
                                   !.overlays = Append(@, run.created + 1),
                                   !.created = @ + 1]
                  ELSE [run EXCEPT !.handlers[i].at = "done"]
    /\ UNCHANGED <<scene, selection, broken, options, pc, stats, changes, outbox, ui, hist>>

HighlightsNext ==
    \/ \E nodeId \in HighlightTargets : UiHighlightNode(nodeId)
    \/ UiRemoveHighlight
    \/ HandlerStarts
    \/ HandlerResumes

Highlights == HighlightsInit /\ [][HighlightsNext]_vars

(***************************************************************************)
(* Properties.                                                             *)
(***************************************************************************)
InstanceNodes == {n \in NodeIds : NodeType(n) = "INSTANCE"}

\* The nodes below an instance.
InstanceDescendants == UNION {Descendants(i) : i \in InstanceNodes}

\* The (node, property) pairs whose value differs between two scenes.
MutatedPairs(before, after) ==
    UNION {{<<n, f>> : f \in {g \in DOMAIN before[n] : before[n][g] # after[n][g]}}
           : n \in NodeIds}

\* The node property a name in a preview report stands for.
PropertyField(property) ==
    CASE property = "lineHeight (%)"    -> "lineHeight"
      [] property = "letterSpacing (%)" -> "letterSpacing"
      [] property = "effect[0].radius"  -> "effects"
      [] OTHER -> property

\* The (node, property) pairs a preview report lists.
ReportedPairs(propertyChanges) ==
    UNION {{<<n, PropertyField(propertyChanges[n].changes[i].property)>>
            : i \in 1..Len(propertyChanges[n].changes)}
           : n \in DOMAIN propertyChanges}

\* The finished apply run had the options, rounding factor, scope and scene
\* of the latest preview, and no exclusions.
AppliedAsPreviewed ==
    /\ pc = "applied"
    /\ hist.lastPreview # Null
    /\ hist.lastPreview.scene = hist.base
    /\ hist.lastPreview.selectionOnly = run.selectionOnly
    /\ hist.lastPreview.roundingFactor = run.roundingFactor
    /\ run.excludedSet = {}
    /\ ~hist.failed

\* C1: an apply run under the options, rounding factor, scope and (empty)
\* exclusion set of a preview mutates exactly the (node, property) pairs the
\* preview reported.
C1_PreviewMatchesApply ==
    AppliedAsPreviewed =>
        MutatedPairs(hist.base, scene) = ReportedPairs(changes.propertyChanges)

\* C2: a node on the caller's exclusion list has no entry in the preview's
\* propertyChanges, and an apply run neither mutates it nor counts it as
\* processed.
C2_ExcludedUntouched ==
    /\ pc = "previewed" =>
          \A n \in hist.callerExcluded : n \notin DOMAIN changes.propertyChanges
    /\ pc \in {"apply", "applied"} =>
          \A n \in run.excludedSet :
              scene[n] = hist.base[n] /\ hist.visits[n] = 0 /\ n \notin run.processedNodes

\* C3: with detachInstances false, a selection-scoped or document-wide apply
\* run neither processes nor mutates a descendant of an instance.
C3_InstanceDescendantsUntouched ==
    (pc \in {"apply", "applied"} /\ ~options.detachInstances) =>
        \A d \in InstanceDescendants : hist.visits[d] = 0 /\ scene[d] = hist.base[d]

\* C4: with detachInstances false, the instancesSkipped of a finished apply
\* run is the number of instances the run encountered.
C4_InstancesSkippedCounted ==
    (pc = "applied" /\ ~options.detachInstances) =>
        stats.instancesSkipped = Cardinality(hist.instances)

\* C5: a preview changes no property of any node: during the walk and after
\* it the scene is the scene the preview started with.
C5_PreviewReadOnly ==
    pc \in {"preview", "previewed"} => scene = hist.base

\* A preview has finished and reported changes of off-grid values.
C5_PreviewReported ==
    /\ pc = "previewed"
    /\ DOMAIN changes.propertyChanges # {}
    /\ changes.nodeCount > 0

\* The roots of an apply run, and the distinct nodes in its scope.
ApplyRoots == IF run.type = "run" THEN selection ELSE PageFindAll

ApplyScope == Range(ApplyRoots) \cup UNION {Descendants(n) : n \in Range(ApplyRoots)}

\* C6: within one apply run each node is processed at most once, so
\* nodesProcessed and processedCount never exceed the number of distinct
\* nodes in scope.
C6_ApplyAtMostOnce ==
    pc \in {"apply", "applied"} =>
        /\ \A n \in NodeIds : hist.visits[n] <= 1
        /\ stats.nodesProcessed <= Cardinality(ApplyScope)
        /\ run.processedCount <= Cardinality(ApplyScope)

\* An apply run has finished in which the text node was reachable as a root
\* and as a child of the frame, and was processed.
C6_ReachedTwice ==
    /\ pc = "applied"
    /\ (run.type = "select-and-run" \/ selection \in {<<1, 3>>, <<3, 1>>})
    /\ hist.visits[3] = 1
    /\ hist.visits[1] = 1
    /\ run.excludedSet = {}

\* C7: within one preview run each node is processed at most once: nodeCount
\* is the number of distinct nodes visited and no node's change list names a
\* property twice.
C7_PreviewAtMostOnce ==
    pc \in {"preview", "previewed"} =>
        /\ \A n \in NodeIds : hist.visits[n] <= 1
        /\ changes.nodeCount = Cardinality({n \in NodeIds : hist.visits[n] > 0})
        /\ \A n \in DOMAIN changes.propertyChanges :
              \A i, j \in 1..Len(changes.propertyChanges[n].changes) :
                  i # j => changes.propertyChanges[n].changes[i].property
                           # changes.propertyChanges[n].changes[j].property

\* C8: with detachInstances true, a finished apply run that processed an
\* instance has also walked into every direct child of that instance.
C8_DetachedInstanceRecursed ==
    (pc = "applied" /\ options.detachInstances) =>
        \A i \in InstanceNodes :
            i \in run.processedNodes =>
                \A child \in Range(Children(i)) :
                    child \in run.processedNodes \cup run.excludedSet

\* The nodes a traversal from the pending calls `todo` processes when
\* nothing fails: each node once, excluded nodes not at all, the children
\* of every container but an instance.
RECURSIVE WalkReach(_, _, _)
WalkReach(todo, seen, excluded) ==
    IF todo = <<>> THEN seen
    ELSE LET n == Head(todo)
         IN  IF n \in seen \cup excluded
             THEN WalkReach(Tail(todo), seen, excluded)
             ELSE WalkReach((IF NodeType(n) = "INSTANCE" THEN <<>> ELSE Children(n))
                                \o Tail(todo),
                            seen \cup {n}, excluded)

\* C9: a failing host mutation is counted in errorCount, the walk still
\* processes every node it processes when nothing fails, and the run ends
\* normally with its completion messages.
C9_WalkSurvivesFailure ==
    pc = "applied" =>
        /\ hist.failed => stats.errorCount >= 1
        /\ run.processedNodes = WalkReach(ApplyRoots, {}, run.excludedSet)
        /\ run.processedCount = Cardinality(run.processedNodes)
        /\ outbox[Len(outbox)].type = "apply-complete"
        /\ ~run.noSelection => outbox[Len(outbox) - 1] = Progress("complete", 1, 1)

\* A document-wide run has finished in which the host rejected the mutation
\* of the frame, and the frame's children and the later root were processed.
C9_FailureSurvived ==
    /\ pc = "applied"
    /\ hist.failed
    /\ 1 \in broken
    /\ stats.errorCount >= 1
    /\ {1, 2, 3, 5, 6} \subseteq run.processedNodes

\* The property groups of roundingFactorByProperty and the node properties
\* each one governs.
Groups == {"dimensions", "fontSize", "lineHeight", "cornerRadius", "effects", "vectors"}

GroupFields(g) ==
    CASE g = "dimensions"   -> {"width", "height", "paddingLeft", "paddingRight",
                                "paddingTop", "paddingBottom", "itemSpacing"}
      [] g = "fontSize"     -> {"fontSize"}
      [] g = "lineHeight"   -> {"lineHeight"}
      [] g = "cornerRadius" -> {"cornerRadius", "topLeftRadius", "topRightRadius",
                                "bottomLeftRadius", "bottomRightRadius"}
      [] g = "effects"      -> {"effects"}
      [] OTHER              -> {"vectorNetwork"}

\* Node n's properties in `fields` have the values they had when the run
\* started.
Kept(n, fields) ==
    \A f \in fields \cap DOMAIN scene[n] : scene[n][f] = hist.base[n][f]

\* C10: in an apply run, a group whose factor is zero or negative keeps the
\* value of every property it governs, and so do position and rotation when
\* the rounding factor is zero or negative.
C10_InvalidFactorIdentity ==
    pc \in {"apply", "applied"} =>
        /\ \A g \in Groups :
              options.roundingFactorByProperty[g] <= 0 =>
                  \A n \in NodeIds : Kept(n, GroupFields(g))
        /\ run.roundingFactor <= 0 =>
              \A n \in NodeIds : Kept(n, {"x", "y", "rotation"})

(***************************************************************************)
(* Properties of the numeric helpers, under the specification Calls.       *)
(***************************************************************************)
ApplyReturned(k) == run.fn = "applyRoundingStrategy" /\ Len(run.results) >= k

\* C11: applyRoundingStrategy is idempotent: for every value, every factor
\* f > 0 and every strategy, applying the function to its own result returns
\* that result again.
C11_Idempotent ==
    (ApplyReturned(2) /\ run.factor.s > 0)
        => \A i \in 2..Len(run.results) : run.results[i] = run.results[1]

\* C12: for every factor f <= 0, every value and every strategy,
\* applyRoundingStrategy returns the value unchanged.
C12_NonPositiveFactorIdentity ==
    (ApplyReturned(1) /\ run.factor.s <= 0) => run.results[1] = run.value

\* A call with a negative factor on a value that a valid factor would round.
C12_NegativeFactorCalled ==
    /\ ApplyReturned(1)
    /\ run.factor.s < 0
    /\ run.value = Decimal(35, 2)
    /\ run.results[1] = run.value

\* C13: for every value (positive, negative, or of magnitude below 0.001)
\* and every factor f > 0, the floor strategy returns at most the value and
\* the ceil strategy returns at least the value.
C13_FloorBelowCeilAbove ==
    (ApplyReturned(1) /\ run.factor.s > 0)
        => /\ run.strategy = "floor" => ~F64Less(run.value, run.results[1])
           /\ run.strategy = "ceil" => ~F64Less(run.results[1], run.value)

\* value / factor, exactly, lies halfway between two whole numbers.
Halfway(value, factor) ==
    LET q     == RatDiv(RatOf(value), RatOf(factor))
        twice == BigDivMod(BigScale(q.n, 2), q.d)
    IN  value.s # 0 /\ twice[2] = <<>> /\ BigOdd(twice[1])

\* The multiple of the factor next to value / factor in the direction away
\* from zero.
AwayFromZero(value, factor) ==
    LET q == RatDiv(RatOf(value), RatOf(factor))
    IN  F64Round(RatMul(Rat(q.s, BigAdd(BigFloorDiv(q.n, q.d), <<1>>), <<1>>),
                        RatOf(factor)))

\* C14: under the round strategy a value exactly halfway between two
\* multiples of the factor rounds away from zero, for positive and for
\* negative values (59.5 with factor 1 gives 60), and 60.48 with factor 1
\* gives 60.
C14_HalvesAwayFromZero ==
    (ApplyReturned(1) /\ run.strategy = "round" /\ run.factor.s > 0)
        => /\ Halfway(run.value, run.factor)
                => run.results[1] = AwayFromZero(run.value, run.factor)
           /\ (run.value = Decimal(6048, 2) /\ run.factor = Decimal(1, 0))
                => run.results[1] = Decimal(60, 0)

ProportionsReturned == run.fn = "preserveProportions" /\ Len(run.results) = 1

Whole(n) == [n |-> n, d |-> 1]

\* What C15 says preserveProportions returns for positive width and height
\* in ticks, where nw and nh are the independently rounded values, hr is the
\* rounded height derived from nw and wr the rounded width derived from nh
\* (all positive):
\*   within 1%:   100 * |nw/nh - width/height| <= width/height;
\*   (b) closer:  |wr/nh - width/height| < |nw/hr - width/height|.
ProportionsClaimed(width, height, nw, nh, hr, wr) ==
    IF ~FracLess(nh * width, RatioThresholdInverse, Abs(nw * height - width * nh), 1)
    THEN <<Whole(nw), Whole(nh)>>
    ELSE IF FracLess(Abs(wr * height - width * nh), nh, Abs(nw * height - width * hr), hr)
         THEN <<Whole(wr), Whole(nh)>>
         ELSE <<Whole(nw), Whole(hr)>>

\* C15: preserveProportions returns the two independently rounded values
\* when their ratio is within 1% of width / height; otherwise, of
\* alternative (a) [rounded width, height derived from it and rounded] and
\* alternative (b) [width derived from the rounded height and rounded,
\* rounded height], the one whose ratio is closer to width / height, and
\* alternative (a) when the two are equally close.  Stated for the calls in
\* which no rounded dimension is zero, so that every ratio is a number.
C15_ProportionsAsClaimed ==
    ProportionsReturned =>
        LET nw == applyRoundingStrategy(run.width, run.factor, run.strategy)
            nh == applyRoundingStrategy(run.height, run.factor, run.strategy)
            hr == Ticks(ApplyFraction(nw * run.height, run.width, run.factor, run.strategy))
            wr == Ticks(ApplyFraction(nh * run.width, run.height, run.factor, run.strategy))
        IN  (nw > 0 /\ nh > 0 /\ hr > 0 /\ wr > 0)
                => run.results[1]
                     = ProportionsClaimed(run.width, run.height, nw, nh, hr, wr)

DeepReturned == run.fn = "roundDeepValues" /\ Len(run.results) = 1

\* `out` has the nesting, the lengths, the order and the keys of `given`;
\* it holds applyRoundingStrategy of every number of `given` and every
\* string, boolean and null of `given` itself.
RECURSIVE RoundedCopy(_, _, _, _)
RoundedCopy(given, out, factor, strategy) ==
    /\ out.t = given.t
    /\ CASE given.t = "number" ->
              out.v = applyRoundingStrategy(given.v, factor, strategy)
         [] given.t \in {"array", "object"} ->
              /\ DOMAIN out.v = DOMAIN given.v
              /\ \A k \in DOMAIN given.v :
                    RoundedCopy(given.v[k], out.v[k], factor, strategy)
         [] OTHER -> out = given

\* C16: roundDeepValues is a structure-preserving map that does not mutate
\* its input: the result has the same nesting, the same sequence lengths and
\* order and the same key sets as the input, every number is replaced by
\* applyRoundingStrategy of it, every string, boolean and null is unchanged,
\* and the input is equal before and after the call.
C16_DeepStructurePreserved ==
    DeepReturned
        => /\ run.obj = run.given
           /\ RoundedCopy(run.given, run.results[1], run.factor, run.strategy)

\* The effect with a nested offset, rounded to whole units: the nested
\* offset.x 0.75 became 1 and the input still holds 0.75.
C16_NestedNumberRounded ==
    /\ DeepReturned
    /\ run.given.t = "object"
    /\ "offset" \in DOMAIN run.given.v
    /\ run.factor = Unit
    /\ run.strategy = "round"
    /\ run.results[1].v.offset.v.x = Num(Unit)
    /\ run.obj.v.offset.v.x = Num(1500)
    /\ run.results[1].v.type = Str("DROP_SHADOW")

(***************************************************************************)
(* Properties of the messages and statistics of a request, under Spec.     *)
(***************************************************************************)
IsPreviewAnswer(msg) == msg.type \in {"preview-complete", "preview-error"}

\* C17: each preview request is answered by exactly one message: either one
\* preview-complete that carries both stats and changes, or one
\* preview-error; never both, never two preview-complete messages, and never
\* a preview-complete without stats.
C17_OnePreviewAnswer ==
    pc = "previewed" =>
        /\ Len(SelectSeq(outbox, IsPreviewAnswer)) = 1
        /\ \A i \in DOMAIN outbox :
              outbox[i].type = "preview-complete"
                  => {"stats", "changes"} \subseteq DOMAIN outbox[i]

IsProgress(msg, phase) == msg.type = "progress-update" /\ msg.phase = phase

\* C18: every apply request produces, in order, one progress-update with
\* phase analyzing and progress 0, then zero or more with phase processing,
\* then one with phase complete and progress 1, and only then
\* apply-complete; also when the selection is empty.
C18_ApplyMessageOrder ==
    pc = "applied" =>
        /\ Len(outbox) >= 3
        /\ IsProgress(outbox[1], "analyzing") /\ outbox[1].progress.n = 0
        /\ \A i \in 2..(Len(outbox) - 2) : IsProgress(outbox[i], "processing")
        /\ IsProgress(outbox[Len(outbox) - 1], "complete")
        /\ outbox[Len(outbox) - 1].progress.n = outbox[Len(outbox) - 1].progress.d
        /\ outbox[Len(outbox)].type = "apply-complete"

\* The sum over the selected nodes of 1 plus the number of descendants.
RECURSIVE SelectedWithDescendants(_)
SelectedWithDescendants(sel) ==
    IF sel = <<>> THEN 0
    ELSE 1 + Cardinality(Descendants(Head(sel))) + SelectedWithDescendants(Tail(sel))

ProgressIndices == {i \in DOMAIN outbox : outbox[i].type = "progress-update"}

\* C19: within one apply run the progress values of successive
\* progress-update messages are non-decreasing and always in [0, 1]: each
\* processing message carries processedCount / totalNodes with
\* processedCount <= totalNodes, where totalNodes is the findAll count
\* (document) or the sum over the selected nodes of 1 plus its descendant
\* count (selection), computed once before the walk.
C19_ProgressMonotone ==
    pc \in {"apply", "applied"} =>
        /\ run.totalNodes = IF run.type = "run" THEN SelectedWithDescendants(selection)
                            ELSE Cardinality(NodeIds)
        /\ run.processedCount <= run.totalNodes
        /\ \A i \in ProgressIndices :
              /\ outbox[i].progress.d > 0
              /\ 0 <= outbox[i].progress.n
              /\ outbox[i].progress.n <= outbox[i].progress.d
              /\ outbox[i].phase = "processing"
                    => /\ outbox[i].progress.d = run.totalNodes
                       /\ outbox[i].progress.n <= run.processedCount
        /\ \A i, j \in ProgressIndices :
              i < j => outbox[i].progress.n * outbox[j].progress.d
                          <= outbox[j].progress.n * outbox[i].progress.d

\* A finished selection-scoped run over a frame and one of its descendants:
\* several processing messages, and fewer nodes processed than counted.
C19_SelectionRunProgressed ==
    /\ pc = "applied"
    /\ run.type = "run"
    /\ Len(selection) = 2
    /\ run.processedCount >= 2
    /\ run.processedCount < run.totalNodes
    /\ Cardinality(ProgressIndices) = run.processedCount + 2

\* The node properties whose value the run changed: the (node, property)
\* pairs that differ from the scene at the start of the run.  The corner
\* fields that the host rewrites when a node's cornerRadius is assigned are
\* part of that one property.
ChangedProperties(before, after) ==
    {p \in MutatedPairs(before, after) :
        ~(p[2] \in CornerFields /\ <<p[1], "cornerRadius">> \in MutatedPairs(before, after))}

\* C20: at the end of an apply run stats.propertiesRounded equals the number
\* of node properties whose value the run changed, one increment per changed
\* property, also when only one of width and height changes in a resize and
\* when a uniform padding sets four padding fields.
C20_PropertiesRoundedCountsChanges ==
    pc = "applied"
        => stats.propertiesRounded = Cardinality(ChangedProperties(hist.base, scene))

(***************************************************************************)
(* Properties of vector networks, text and effects, under Spec.            *)
(***************************************************************************)
VectorNodes == {n \in NodeIds : Has(scene[n], "vectorNetwork")}

\* A segment index k is the number k, held as k * Unit ticks.
IndexInRange(index, vertexCount) ==
    index.t = "number" /\ 0 <= index.v /\ index.v < vertexCount * Unit

SegmentsInRange(network) ==
    \A i \in DOMAIN network.v.segments.v :
        /\ IndexInRange(network.v.segments.v[i].v.start, Len(network.v.vertices.v))
        /\ IndexInRange(network.v.segments.v[i].v.end, Len(network.v.vertices.v))

\* Every vertex coordinate is a multiple of the factor.
CoordinatesOnGrid(network, factor) ==
    \A i \in DOMAIN network.v.vertices.v :
        /\ network.v.vertices.v[i].v.x.v % factor = 0
        /\ network.v.vertices.v[i].v.y.v % factor = 0

\* C21: every vector network that apply commits to a node has only segments
\* whose start and end are indices in [0, number of vertices); a commit
\* happens only when the rounded network differs from the node's current
\* network, and a network whose coordinates are already on the grid is never
\* re-committed.
C21_NetworkCommits ==
    pc \in {"apply", "applied"} =>
        \A n \in VectorNodes :
            /\ scene[n].vectorNetwork # hist.base[n].vectorNetwork
                  => SegmentsInRange(scene[n].vectorNetwork)
            /\ (/\ options.roundingFactorByProperty.vectors > 0
                /\ CoordinatesOnGrid(hist.base[n].vectorNetwork,
                                     options.roundingFactorByProperty.vectors))
                  => scene[n].vectorNetwork = hist.base[n].vectorNetwork

\* The <<start, end>> pairs of a network's segments, in order.
SegmentEnds(network) ==
    [i \in DOMAIN network.v.segments.v |->
        <<network.v.segments.v[i].v.start, network.v.segments.v[i].v.end>>]

\* C27: rounding a vector network with any vectors factor f > 0 leaves the
\* start and end vertex indices of every segment unchanged; only coordinate
\* values are changed.
C27_SegmentIndicesKept ==
    (pc \in {"apply", "applied"} /\ options.roundingFactorByProperty.vectors > 0)
        => \A n \in VectorNodes :
              SegmentEnds(scene[n].vectorNetwork) = SegmentEnds(hist.base[n].vectorNetwork)

\* The fields of an effect that describe geometry.
GeometricFields == {"radius", "offset", "spread"}

\* Two effects agree outside their geometric fields.
SameOutsideGeometry(after, before) ==
    /\ after.t = "object" /\ before.t = "object"
    /\ DOMAIN after.v = DOMAIN before.v
    /\ \A k \in (DOMAIN before.v) \ GeometricFields : after.v[k] = before.v[k]

\* C28: when apply replaces a node's effects, only the geometric fields
\* (radius, offset, spread) of an effect may differ from before; colour
\* components, alpha and every other field are unchanged, and the list keeps
\* its length and order.
C28_EffectsGeometryOnly ==
    pc \in {"apply", "applied"} =>
        \A n \in NodeIds :
            (Has(scene[n], "effects") /\ scene[n].effects # hist.base[n].effects)
                => /\ Len(scene[n].effects) = Len(hist.base[n].effects)
                   /\ \A i \in DOMAIN scene[n].effects :
                          SameOutsideGeometry(scene[n].effects[i], hist.base[n].effects[i])

TextFields == {"fontSize", "lineHeight", "letterSpacing"}

\* In a log of host calls, every assignment to a text field comes after a
\* call of loadFontAsync.
FontLoadedBeforeWrites(calls) ==
    \A i \in DOMAIN calls :
        (calls[i].op = "set" /\ calls[i].args[1] \in TextFields)
            => \E j \in 1..(i - 1) : calls[j].op = "loadFontAsync"

\* A {unit, value} field after a step: its unit is the one it had, and a
\* field whose unit is neither PIXELS nor PERCENT is as it was.
UnitKept(after, before) ==
    /\ after.unit = before.unit
    /\ before.unit \notin {"PIXELS", "PERCENT"} => after = before

\* C22: while a text node is processed, no write to fontSize, lineHeight or
\* letterSpacing happens before the font-load call; a write to lineHeight or
\* letterSpacing keeps the unit the field had (PIXELS stays PIXELS, PERCENT
\* stays PERCENT), and a field with another unit is not written.
C22_TextWritesAfterFontLoad ==
    [][\A n \in NodeIds :
          (pc = "apply" /\ scene[n].type = "TEXT" /\ scene'[n] # scene[n])
              => /\ FontLoadedBeforeWrites(
                        processNodeProperties(scene[n], run.roundingFactor, options,
                                              n \in broken).calls)
                 /\ UnitKept(scene'[n].lineHeight, scene[n].lineHeight)
                 /\ UnitKept(scene'[n].letterSpacing, scene[n].letterSpacing)]_vars

\* A run has written the fontSize and the letterSpacing of a text node.
C22_TextFieldsWritten ==
    /\ pc \in {"apply", "applied"}
    /\ \E n \in NodeIds :
          /\ scene[n].type = "TEXT"
          /\ scene[n].letterSpacing # hist.base[n].letterSpacing
          /\ scene[n].fontSize # hist.base[n].fontSize

\* The nodes the current apply run has processed without a rejected
\* mutation.
ProcessedNodes ==
    {n \in NodeIds : /\ hist.visits[n] > 0
                     /\ n \notin broken
                     /\ ~Ignored(hist.base[n], options)}

\* C25: after an apply run started from the panel with dimensions factor
\* f > 0, every processed node with a position has x and y equal to
\* applyRoundingStrategy of its old x and y with f, the factor the preview
\* uses for positions.
C25_PositionsUseDimensionsFactor ==
    (pc \in {"apply", "applied"} /\ options.roundingFactorByProperty.dimensions > 0)
        => \A n \in ProcessedNodes :
              /\ Has(scene[n], "x")
                    => scene[n].x = applyRoundingStrategy(hist.base[n].x,
                                        options.roundingFactorByProperty.dimensions,
                                        options.roundingStrategy)
              /\ Has(scene[n], "y")
                    => scene[n].y = applyRoundingStrategy(hist.base[n].y,
                                        options.roundingFactorByProperty.dimensions,
                                        options.roundingStrategy)

\* An apply run follows another one that met no error, and has the same
\* scope and exclusions (the options never change).
SecondRunAfterCleanRun ==
    /\ pc \in {"apply", "applied"}
    /\ hist.lastApply # Null
    /\ hist.lastApply.errorCount = 0
    /\ hist.lastApply.type = run.type
    /\ hist.lastApply.excludedSet = run.excludedSet

\* C26: after one apply run that completed without errors, a second apply run
\* with the same configuration, scope and exclusions mutates nothing and ends
\* with propertiesRounded = 0.  Stated for the runs of the plugin on tick
\* values and for the runs over a text node whose font size is any double.
C26_SecondRunChangesNothing ==
    /\ SecondRunAfterCleanRun
          => /\ scene = hist.base
             /\ stats.propertiesRounded = 0
    /\ (pc = "call" /\ run.fn = "processNodeProperties" /\ Len(run.results) >= 2)
          => /\ run.results[2].fontSize = run.results[1].fontSize
             /\ run.results[2].propertiesRounded = 0

\* C29: for width > 0, height > 0 and a dimensions factor > 0, the width and
\* the height passed to resize are both strictly positive, with
\* preserveProportions (the pair it returns) and without it (each dimension
\* rounded on its own), for every strategy.
C29_ResizePositive ==
    /\ ProportionsReturned
          => /\ run.results[1][1].n > 0
             /\ run.results[1][2].n > 0
    /\ (ApplyReturned(1) /\ run.value.s > 0 /\ run.factor.s > 0)
          => run.results[1].s > 0

\* C23: for every sequence and interleaving of highlight-node and
\* remove-highlight requests, the page holds at most one overlay named
\* "Temporary Highlight" at any time.
C23_AtMostOneOverlay ==
    pc = "highlight" => Len(run.overlays) <= 1

\* Every message posted has been handled to the end.
HandlersFinished ==
    /\ pc = "highlight"
    /\ run.inbox = <<>>
    /\ \A i \in DOMAIN run.handlers : run.handlers[i].at = "done"

\* C24: if the panel sends remove-highlight after highlight-node, then once
\* both handlers have finished no "Temporary Highlight" overlay remains on
\* the page, also when remove-highlight ran while the highlight-node handler
\* was suspended at its await.
C24_RemoveClearsOverlay ==
    (/\ HandlersFinished
     /\ Len(run.handlers) >= 2
     /\ run.handlers[Len(run.handlers)].type = "remove-highlight")
        => run.overlays = <<>>

====
